---------------------------- MODULE Spec2Model ----------------------------
(***************************************************************************)
(* COMMBUYS client (src/cli/commbuys.py): the transport with its retry     *)
(* loop, the token extractor, the dropdown resolver, the three-phase       *)
(* PrimeFaces conversation of CommbuysClient.ajax_search and the           *)
(* attachment download.                                                    *)
(*                                                                         *)
(* Text is a sequence of symbols.  A symbol is one character where the     *)
(* code looks inside the text (option labels, typed search terms) and one  *)
(* opaque atom where it only copies it (tokens, ids).  A dict key such as  *)
(* f"{form_id}:organization" is the two-symbol text <<form_id, name>>; a   *)
(* key without a colon is a one-symbol text.                               *)
(***************************************************************************)
EXTENDS Naturals, Sequences, FiniteSets, TLC

VARIABLES
    pc,                 \* control point of the running operation
    op,                 \* the public operation that was called
    page_url,           \* ajax_search argument
    form_id,            \* ajax_search argument
    search_button_id,   \* ajax_search argument
    results_form_id,    \* ajax_search argument (None when not given)
    form_fields,        \* the caller's field mapping (a dict, mutated in place)
    fields0,            \* the field mapping as the caller passed it
    page_html,          \* body returned by the page GET
    tokens,             \* dict of extracted tokens
    reset_button_id,    \* result of _find_reset_button
    reset_response,     \* body returned by the reset POST
    call,               \* the transport call in progress: function, method, data
    resp,               \* value the transport call returned
    attempt,            \* loop variable of the transport's retry loop
    tlog,               \* events of the current transport call: attempts and sleeps
    sent,               \* the transport calls issued so far, in order
    ret,                \* value returned by the operation
    exc,                \* exception that left the operation
    rin,                \* inputs of the pure function under test
    rout,               \* its result
    inst,               \* two client instances: the locals of each one's ajax_search
    cookie_jar,         \* the cookie stores the instances have constructed
    issued,             \* what the server has handed out, per receiving instance
    activity            \* the steps of the operation so far, in order, in the runs
                        \* that keep them

vars == <<pc, op, page_url, form_id, search_button_id, results_form_id, form_fields, fields0,
          page_html, tokens, reset_button_id, reset_response, call, resp, attempt,
          tlog, sent, ret, exc, rin, rout, inst, cookie_jar, issued, activity>>

-----------------------------------------------------------------------------
(* Program constants *)

MAX_RETRIES == 3

\* Python's None, kept apart from every text
None == <<"<None>">>

\* dict keys
K_AJAX == <<"javax.faces.partial.ajax">>
K_SOURCE == <<"javax.faces.source">>
K_EXECUTE == <<"javax.faces.partial.execute">>
K_RENDER == <<"javax.faces.partial.render">>
K_VIEWSTATE == <<"javax.faces.ViewState">>
K_CSRF == <<"_csrf">>

\* f"{form_id}:{name}"
FieldName(form, name) == form \o <<name>>

\* the empty dict, and dict assignment d[k] = v
EmptyDict == [k \in {} |-> None]

DictSet(d, k, v) == [x \in DOMAIN d \cup {k} |-> IF x = k THEN v ELSE d[x]]

\* a dict display {k1: v1, k2: v2, ...}: a later entry replaces an earlier one
RECURSIVE DictOf(_)
DictOf(pairs) ==
    IF pairs = <<>> THEN EmptyDict
    ELSE LET n == Len(pairs)
         IN  DictSet(DictOf(SubSeq(pairs, 1, n - 1)), pairs[n][1], pairs[n][2])

\* for key, value in f.items(): d[key] = value
DictUpdate(d, f) ==
    [x \in DOMAIN d \cup DOMAIN f |-> IF x \in DOMAIN f THEN f[x] ELSE d[x]]

\* Python truthiness of a text or None
Truthy(x) == x # None /\ x # <<>>

-----------------------------------------------------------------------------
(* Text helpers: str.lower, str.strip, the `in` operator on strings *)

LowerChar(c) ==
    CASE c = "A" -> "a"
      [] c = "B" -> "b"
      [] OTHER -> c

Lower(s) == [i \in 1..Len(s) |-> LowerChar(s[i])]

IsSpace(c) == c = " "

RECURSIVE LStrip(_)
LStrip(s) == IF s # <<>> /\ IsSpace(Head(s)) THEN LStrip(Tail(s)) ELSE s

RECURSIVE RStrip(_)
RStrip(s) ==
    IF s # <<>> /\ IsSpace(s[Len(s)]) THEN RStrip(SubSeq(s, 1, Len(s) - 1)) ELSE s

Strip(s) == RStrip(LStrip(s))

\* a in b
Contains(a, b) ==
    \E i \in 0..(Len(b) - Len(a)) : SubSeq(b, i + 1, i + Len(a)) = a

-----------------------------------------------------------------------------
(* Shapes of the data the server returns.                                  *)
(*   page: [inputs, searchNew, selects]                                    *)
(*     inputs    hidden <input> fields in document order, each             *)
(*               [name, value, order]; order is "nv" when the name         *)
(*               attribute is written before the value attribute, "vn"     *)
(*               when after                                                *)
(*     searchNew the s:"..." id inside the searchNew script, or None       *)
(*     selects   <select> lists in document order, each [name, options],   *)
(*               options a sequence of [value, text]                       *)
(*   partial response: a sequence of <update> elements [id, cdata]         *)

Hidden(n, v, o) == [name |-> n, value |-> v, order |-> o]

Option(v, t) == [value |-> v, text |-> t]

Select(n, opts) == [name |-> n, options |-> opts]

Update(i, c) == [id |-> i, cdata |-> c]

\* the leftmost of a set of match positions
Min(S) == CHOOSE i \in S : \A j \in S : i <= j

\* variant: only the name-before-value pattern is tried
FindHidden_name_first(inputs, key) ==
    LET Found(o) == {i \in 1..Len(inputs) : /\ inputs[i].name = key
                                              /\ inputs[i].order = o
                                              /\ inputs[i].value # <<>>}
        nv == Found("nv")
    IN  IF nv # {} THEN inputs[Min(nv)].value ELSE None

\* re.search for one hidden field: the name-before-value pattern first, the
\* value-before-name pattern only when the first finds nothing; ([^"']+)
\* needs a non-empty value
FindHidden(inputs, key) ==
    LET Found(o) == {i \in 1..Len(inputs) : /\ inputs[i].name = key
                                              /\ inputs[i].order = o
                                              /\ inputs[i].value # <<>>}
        nv == Found("nv")
        vn == Found("vn")
    IN  IF nv # {} THEN inputs[Min(nv)].value
        ELSE IF vn # {} THEN inputs[Min(vn)].value
        ELSE None

\* variant: the view-state entry is stored whether or not a field was found
_extract_tokens_unchecked(html_text) ==
    LET vs == FindHidden(html_text.inputs, K_VIEWSTATE)
        csrf == FindHidden(html_text.inputs, K_CSRF)
        t1 == DictSet(EmptyDict, K_VIEWSTATE, vs)
    IN  IF csrf # None THEN DictSet(t1, K_CSRF, csrf) ELSE t1

_extract_tokens(html_text) ==
    LET vs == FindHidden(html_text.inputs, K_VIEWSTATE)
        csrf == FindHidden(html_text.inputs, K_CSRF)
        t1 == IF vs # None THEN DictSet(EmptyDict, K_VIEWSTATE, vs) ELSE EmptyDict
    IN  IF csrf # None THEN DictSet(t1, K_CSRF, csrf) ELSE t1

\* variant: any searchNew id is taken, also one of another form
_find_reset_button_anyform(html_text, form) ==
    LET id == html_text.searchNew
    IN  IF id # None THEN id ELSE None

\* the id must be f"{form_id}:<something>"
_find_reset_button(html_text, form) ==
    LET id == html_text.searchNew
    IN  IF id # None /\ Len(id) = Len(form) + 1 /\ SubSeq(id, 1, Len(form)) = form
        THEN id
        ELSE None

\* is there a <select> named field_name, and the options of the first one
HasSelect(html_text, field_name) ==
    \E i \in 1..Len(html_text.selects) : html_text.selects[i].name = field_name

SelectOptions(html_text, field_name) ==
    LET m == {i \in 1..Len(html_text.selects) : html_text.selects[i].name = field_name}
    IN  html_text.selects[Min(m)].options

\* variant: one loop that takes the first option matching either way
MatchOption_one_loop(options, org_text) ==
    LET term == Lower(org_text)
        part == {i \in 1..Len(options) : Contains(term, Lower(Strip(options[i].text)))}
    IN  IF part # {} THEN options[Min(part)].value
        ELSE org_text

\* the two loops over the options: exact match, then partial match
MatchOption(options, org_text) ==
    LET term == Lower(org_text)
        exact == {i \in 1..Len(options) : term = Lower(Strip(options[i].text))}
        part == {i \in 1..Len(options) : Contains(term, Lower(Strip(options[i].text)))}
    IN  IF exact # {} THEN options[Min(exact)].value
        ELSE IF part # {} THEN options[Min(part)].value
        ELSE org_text

_resolve_org_code(html_text, form, org_text) ==
    LET field_name == FieldName(form, "organization")
    IN  IF ~HasSelect(html_text, field_name) THEN org_text
        ELSE MatchOption(SelectOptions(html_text, field_name), org_text)

\* variant: the reset response is not searched for a view-state
UpdatedViewState_ignored(response) == None

\* the updated view-state of a partial response, or None
UpdatedViewState(response) ==
    LET m == {i \in 1..Len(response) : /\ response[i].id = K_VIEWSTATE
                                        /\ response[i].cdata # <<>>}
    IN  IF m = {} THEN None ELSE response[Min(m)].cdata

RECURSIVE JoinNewline(_)
JoinNewline(blocks) ==
    IF blocks = <<>> THEN <<>>
    ELSE IF Len(blocks) = 1 THEN blocks[1]
    ELSE blocks[1] \o <<"\n">> \o JoinNewline(Tail(blocks))

\* variant: re.search in place of re.findall, only the first block is taken
_parse_ajax_response_first(xml_text) ==
    IF xml_text = <<>> THEN <<>> ELSE xml_text[1].cdata

\* re.findall of the CDATA blocks, then "\n".join
_parse_ajax_response(xml_text) ==
    JoinNewline([i \in 1..Len(xml_text) |-> xml_text[i].cdata])

-----------------------------------------------------------------------------
(* Transport: the retry loop of _make_request, _ajax_post and download_file *)

\* what one HTTP exchange can end in
Ok(b) == [t |-> "ok", body |-> b]

\* urllib.error.HTTPError with its status
HTTPError(c) == [t |-> "HTTPError", code |-> c]

\* urllib.error.URLError raised by opener.open: the connection failed
URLError == [t |-> "URLError", code |-> 0]

\* an OSError or http.client exception raised by response.read(): the
\* connection broke while the body was read; it is no URLError
ReadError == [t |-> "ReadError", code |-> 0]

AttemptEv(o) == [ev |-> "attempt", n |-> attempt, out |-> o]

SleepEv(w) == [ev |-> "sleep", n |-> attempt, wait |-> w]

\* variant: a forbidden response is retried like an overloaded server
RetryStatus_with_forbidden == {403, 429, 500, 502, 503, 504}

RetryStatus == {429, 500, 502, 503, 504}

\* variant: the exponent is the loop index itself
Backoff_from_zero(a) == 2 ^ a

Backoff(a) == 2 ^ (a + 1)

\* the steps of an operation: not kept, or kept from the start. A step is
\* an HTTP attempt that returned a body ("ok") or failed ("failed"), a
\* backoff sleep ("sleep"), or a step of the operation's own code ("code")
Uncounted == [on |-> FALSE, steps |-> <<>>]

Counted == [on |-> TRUE, steps |-> <<>>]

Spend(s, what) == IF s.on THEN [s EXCEPT !.steps = @ \o what] ELSE s

Outcome(o) == IF o.t = "ok" THEN "ok" ELSE "failed"

AttemptsOf(s) == Cardinality({i \in 1..Len(s.steps) : s.steps[i] \in {"ok", "failed"}})

SleepsOf(s) == Cardinality({i \in 1..Len(s.steps) : s.steps[i] = "sleep"})

\* a transport call begins: range(MAX_RETRIES) starts at 0
StartCall(fn, method, url, data, cont) ==
    /\ call' = [fn |-> fn, method |-> method, url |-> url, data |-> data, cont |-> cont]
    /\ sent' = Append(sent, [fn |-> fn, method |-> method, url |-> url, data |-> data,
                             phase |-> cont])
    /\ attempt' = 0
    /\ tlog' = <<>>
    /\ pc' = fn

\* return content.decode(...)
Return(o) ==
    /\ tlog' = Append(tlog, AttemptEv(o))
    /\ resp' = o.body
    /\ pc' = call.cont
    /\ activity' = Spend(activity, <<Outcome(o)>>)
    /\ UNCHANGED <<attempt, exc>>

\* time.sleep(wait); continue
Retry(o) ==
    /\ tlog' = tlog \o <<AttemptEv(o), SleepEv(Backoff(attempt))>>
    /\ attempt' = attempt + 1
    /\ activity' = Spend(activity, <<Outcome(o), "sleep">>)
    /\ UNCHANGED <<resp, pc, exc>>

\* variant: the exception is wrapped in a new error before it is raised
Raise_wrapped(o) ==
    /\ tlog' = Append(tlog, AttemptEv(o))
    /\ exc' = [t |-> "RuntimeError", code |-> 0, attempt |-> attempt, fn |-> call.fn]
    /\ pc' = "raised"
    /\ activity' = Spend(activity, <<Outcome(o)>>)
    /\ UNCHANGED <<attempt, resp>>

\* variant: a failed reset POST is swallowed and the search goes on
Raise_reset_swallowed(o) ==
    /\ tlog' = Append(tlog, AttemptEv(o))
    /\ activity' = Spend(activity, <<Outcome(o)>>)
    /\ IF call.cont = "reset"
       THEN /\ resp' = <<>>
            /\ pc' = call.cont
            /\ UNCHANGED <<attempt, exc>>
       ELSE /\ exc' = [t |-> o.t, code |-> o.code, attempt |-> attempt, fn |-> call.fn]
            /\ pc' = "raised"
            /\ UNCHANGED <<attempt, resp>>

\* raise: the exception leaves the transport and the operation unchanged
Raise(o) ==
    /\ tlog' = Append(tlog, AttemptEv(o))
    /\ exc' = [t |-> o.t, code |-> o.code, attempt |-> attempt, fn |-> call.fn]
    /\ pc' = "raised"
    /\ activity' = Spend(activity, <<Outcome(o)>>)
    /\ UNCHANGED <<attempt, resp>>

Frame ==
    UNCHANGED <<op, page_url, form_id, search_button_id, results_form_id, form_fields,
                fields0, page_html, tokens, reset_button_id, reset_response, call, sent,
                ret, rin, rout,
                   inst, cookie_jar, issued>>

_make_request(o) ==
    /\ pc = "_make_request"
    /\ attempt < MAX_RETRIES
    /\ IF o.t = "ok" THEN Return(o)
       ELSE IF o.t = "HTTPError"
            THEN IF o.code \in RetryStatus /\ attempt < MAX_RETRIES - 1
                 THEN Retry(o) ELSE Raise(o)
       ELSE IF o.t = "URLError"
            THEN IF attempt < MAX_RETRIES - 1 THEN Retry(o) ELSE Raise(o)
       ELSE Raise(o)
    /\ Frame

\* variant: a retried failure is slept on and retried on the last round too
_ajax_post_retry_on_last(o) ==
    /\ pc = "_ajax_post"
    /\ attempt < MAX_RETRIES
    /\ IF o.t = "ok" THEN Return(o)
       ELSE IF o.t = "HTTPError"
            THEN IF o.code \in RetryStatus THEN Retry(o) ELSE Raise(o)
       ELSE IF o.t = "URLError" THEN Retry(o)
       ELSE Raise(o)
    /\ Frame

_ajax_post(o) ==
    /\ pc = "_ajax_post"
    /\ attempt < MAX_RETRIES
    /\ IF o.t = "ok" THEN Return(o)
       ELSE IF o.t = "HTTPError"
            THEN IF o.code \in RetryStatus /\ attempt < MAX_RETRIES - 1
                 THEN Retry(o) ELSE Raise(o)
       ELSE IF o.t = "URLError"
            THEN IF attempt < MAX_RETRIES - 1 THEN Retry(o) ELSE Raise(o)
       ELSE Raise(o)
    /\ Frame

download_file(o) ==
    /\ pc = "download_file"
    /\ attempt < MAX_RETRIES
    /\ IF o.t = "ok" THEN Return(o)
       ELSE IF o.t = "HTTPError"
            THEN IF o.code \in RetryStatus /\ attempt < MAX_RETRIES - 1
                 THEN Retry(o) ELSE Raise(o)
       ELSE IF o.t = "URLError"
            THEN IF attempt < MAX_RETRIES - 1 THEN Retry(o) ELSE Raise(o)
       ELSE Raise(o)
    /\ Frame

-----------------------------------------------------------------------------
(* CommbuysClient.ajax_search *)

\* get(page_url): step 1 begins
ajax_search(url, form, button, fields, results) ==
    /\ pc = "idle"
    /\ op' = "ajax_search"
    /\ page_url' = url
    /\ form_id' = form
    /\ search_button_id' = button
    /\ form_fields' = fields
    /\ fields0' = fields
    /\ results_form_id' = results
    /\ StartCall("_make_request", "GET", url, EmptyDict, "page")
    /\ UNCHANGED <<page_html, tokens, reset_button_id, reset_response, resp, ret,
                   exc, rin, rout,
                   inst, cookie_jar, issued>>
    /\ activity' = Spend(activity, <<"code">>)

\* variant: the reset POST carries no CSRF parameter
ResetData_without_csrf(form, button, toks) ==
    DictOf(<< <<K_AJAX, <<"true">> >>,
              <<K_SOURCE, button>>,
              <<K_EXECUTE, <<"@all">> >>,
              <<K_RENDER, form>>,
              <<button, button>>,
              <<form, form>>,
              <<K_VIEWSTATE, toks[K_VIEWSTATE]>> >>)

\* the reset POST's parameters
ResetData(form, button, toks) ==
    LET d == DictOf(<< <<K_AJAX, <<"true">> >>,
                       <<K_SOURCE, button>>,
                       <<K_EXECUTE, <<"@all">> >>,
                       <<K_RENDER, form>>,
                       <<button, button>>,
                       <<form, form>>,
                       <<K_VIEWSTATE, toks[K_VIEWSTATE]>> >>)
    IN  IF K_CSRF \in DOMAIN toks THEN DictSet(d, K_CSRF, toks[K_CSRF]) ELSE d

\* variant: the render target is always the form
SearchData_render_form(form, button, results, toks, fields) ==
    LET d == DictOf(<< <<K_AJAX, <<"true">> >>,
                       <<K_SOURCE, button>>,
                       <<K_EXECUTE, <<"@all">> >>,
                       <<K_RENDER, form>>,
                       <<button, button>>,
                       <<form, form>>,
                       <<K_VIEWSTATE, toks[K_VIEWSTATE]>> >>)
        c == IF K_CSRF \in DOMAIN toks THEN DictSet(d, K_CSRF, toks[K_CSRF]) ELSE d
    IN  DictUpdate(c, fields)

\* the search POST's parameters: the protocol parameters, then every field
SearchData(form, button, results, toks, fields) ==
    LET render_target == IF Truthy(results) THEN results ELSE form
        d == DictOf(<< <<K_AJAX, <<"true">> >>,
                       <<K_SOURCE, button>>,
                       <<K_EXECUTE, <<"@all">> >>,
                       <<K_RENDER, render_target>>,
                       <<button, button>>,
                       <<form, form>>,
                       <<K_VIEWSTATE, toks[K_VIEWSTATE]>> >>)
        c == IF K_CSRF \in DOMAIN toks THEN DictSet(d, K_CSRF, toks[K_CSRF]) ELSE d
    IN  DictUpdate(c, fields)

\* variant: the mapping is submitted as typed
ResolveFields_raw(html_text, form, fields) == fields

\* variant: the search parameters are collected in the mapping itself
ResolveFields_with_form_key(html_text, form, fields) ==
    LET org_field == FieldName(form, "organization")
        resolved == IF org_field \in DOMAIN fields
                    THEN [fields EXCEPT ![org_field] = _resolve_org_code(html_text, form, @)]
                    ELSE fields
    IN  DictSet(resolved, form, form)

\* the organization field of the mapping, resolved against the page
ResolveFields(html_text, form, fields) ==
    LET org_field == FieldName(form, "organization")
    IN  IF org_field \in DOMAIN fields
        THEN [fields EXCEPT ![org_field] = _resolve_org_code(html_text, form, @)]
        ELSE fields

\* the page arrived: tokens, dropdown resolution, reset button, and the
\* next POST (the reset when a reset button was found, else the search)
ajax_search_page ==
    /\ pc = "page"
    /\ page_html' = resp
    /\ LET toks == _extract_tokens(resp)
           fields == ResolveFields(resp, form_id, form_fields)
           button == _find_reset_button(resp, form_id)
       IN  IF K_VIEWSTATE \notin DOMAIN toks
           THEN /\ pc' = "raised"
                /\ exc' = [t |-> "RuntimeError", code |-> 0, attempt |-> 0,
                           fn |-> "ajax_search"]
                /\ tokens' = toks
                /\ UNCHANGED <<form_fields, reset_button_id, call, sent, attempt, tlog>>
           ELSE /\ tokens' = toks
                /\ form_fields' = fields
                /\ reset_button_id' = button
                /\ IF Truthy(button)
                   THEN StartCall("_ajax_post", "POST", page_url,
                                  ResetData(form_id, button, toks), "reset")
                   ELSE StartCall("_ajax_post", "POST", page_url,
                                  SearchData(form_id, search_button_id, results_form_id,
                                             toks, fields), "search")
                /\ UNCHANGED exc
    /\ UNCHANGED <<op, page_url, form_id, search_button_id, results_form_id,
                   fields0, reset_response, resp, ret, rin, rout,
                   inst, cookie_jar, issued>>
    /\ activity' = Spend(activity, <<"code">>)

\* the reset response arrived: take its view-state if it has one, then search
ajax_search_reset ==
    /\ pc = "reset"
    /\ reset_response' = resp
    /\ LET vs == UpdatedViewState(resp)
           toks == IF vs # None THEN DictSet(tokens, K_VIEWSTATE, vs) ELSE tokens
       IN  /\ tokens' = toks
           /\ StartCall("_ajax_post", "POST", page_url,
                        SearchData(form_id, search_button_id, results_form_id,
                                   toks, form_fields), "search")
    /\ UNCHANGED <<op, page_url, form_id, search_button_id, results_form_id,
                   form_fields, fields0, page_html, reset_button_id, resp, ret, exc,
                   rin, rout,
                   inst, cookie_jar, issued>>
    /\ activity' = Spend(activity, <<"code">>)

\* the search response arrived: unwrap it
ajax_search_search ==
    /\ pc = "search"
    /\ ret' = _parse_ajax_response(resp)
    /\ pc' = "done"
    /\ UNCHANGED <<op, page_url, form_id, search_button_id, results_form_id,
                   form_fields, fields0, page_html, tokens, reset_button_id,
                   reset_response, call, resp, attempt, tlog, sent, exc, rin, rout,
                   inst, cookie_jar, issued>>
    /\ activity' = Spend(activity, <<"code">>)

-----------------------------------------------------------------------------
(* download_attachment *)

BID_DETAIL_URL == <<"bidDetail.sdo">>

BID_DETAIL_DOWNLOAD_URL == <<"bidDetail.sda">>

K_DOCID == <<"docId">>

K_FILENBR == <<"downloadFileNbr">>

K_MODE == <<"mode">>

\* client.get(BID_DETAIL_URL, params): step 1 begins
download_attachment(doc_id, attachment_id, output_path) ==
    /\ pc = "idle"
    /\ op' = "download_attachment"
    /\ form_fields' = DictOf(<< <<K_DOCID, doc_id>>, <<K_FILENBR, attachment_id>>,
                                <<<<"output_path">>, output_path>> >>)
    /\ StartCall("_make_request", "GET", BID_DETAIL_URL,
                 DictOf(<< <<K_DOCID, doc_id>>,
                           <<<<"external">>, <<"true">> >>,
                           <<<<"parentUrl">>, <<"close">> >> >>), "detail")
    /\ UNCHANGED <<page_url, form_id, search_button_id, results_form_id, fields0,
                   page_html, tokens, reset_button_id, reset_response, resp, ret, exc,
                   rin, rout,
                   inst, cookie_jar, issued, activity>>

\* variant: a detail page without a view-state is refused, as ajax_search
\* refuses a search page
download_attachment_detail_checked ==
    /\ pc = "detail"
    /\ page_html' = resp
    /\ LET toks == _extract_tokens(resp)
           form_data == DictOf(<< <<K_DOCID, form_fields[K_DOCID]>>,
                                  <<K_FILENBR, form_fields[K_FILENBR]>>,
                                  <<K_MODE, <<"download">> >> >>)
       IN  /\ tokens' = toks
           /\ IF K_VIEWSTATE \notin DOMAIN toks
              THEN /\ pc' = "raised"
                   /\ exc' = [t |-> "RuntimeError", code |-> 0, attempt |-> 0,
                              fn |-> "download_attachment"]
                   /\ UNCHANGED <<call, sent, attempt, tlog>>
              ELSE /\ StartCall("download_file", "POST", BID_DETAIL_DOWNLOAD_URL,
                                IF K_CSRF \in DOMAIN toks
                                THEN DictSet(form_data, K_CSRF, toks[K_CSRF])
                                ELSE form_data,
                                "file")
                   /\ UNCHANGED exc
    /\ UNCHANGED <<op, page_url, form_id, search_button_id, results_form_id,
                   form_fields, fields0, reset_button_id, reset_response, resp, ret,
                   rin, rout, inst, cookie_jar, issued, activity>>

\* the detail page arrived: forward its CSRF token, if any, in the download POST
download_attachment_detail ==
    /\ pc = "detail"
    /\ page_html' = resp
    /\ LET toks == _extract_tokens(resp)
           form_data == DictOf(<< <<K_DOCID, form_fields[K_DOCID]>>,
                                  <<K_FILENBR, form_fields[K_FILENBR]>>,
                                  <<K_MODE, <<"download">> >> >>)
       IN  /\ tokens' = toks
           /\ StartCall("download_file", "POST", BID_DETAIL_DOWNLOAD_URL,
                        IF K_CSRF \in DOMAIN toks
                        THEN DictSet(form_data, K_CSRF, toks[K_CSRF])
                        ELSE form_data,
                        "file")
    /\ UNCHANGED <<op, page_url, form_id, search_button_id, results_form_id,
                   form_fields, fields0, reset_button_id, reset_response, resp, ret,
                   exc, rin, rout,
                   inst, cookie_jar, issued, activity>>

\* the file arrived as (content, server_filename): name it and write it;
\* written is FALSE when open() or write() raises OSError
download_attachment_file(written) ==
    /\ pc = "file"
    /\ LET given == form_fields[<<"output_path">>]
           output_path == IF Truthy(given) THEN given
                          ELSE IF Truthy(resp.filename) THEN resp.filename
                          ELSE <<"attachment_">> \o form_fields[K_FILENBR]
       IN  IF written
           THEN /\ ret' = [output_path |-> output_path, size |-> Len(resp.content)]
                /\ pc' = "done"
                /\ UNCHANGED exc
           ELSE /\ exc' = [t |-> "OSError", code |-> 0, attempt |-> 0,
                           fn |-> "download_attachment"]
                /\ pc' = "raised"
                /\ UNCHANGED ret
    /\ UNCHANGED <<op, page_url, form_id, search_button_id, results_form_id,
                   form_fields, fields0, page_html, tokens, reset_button_id,
                   reset_response, call, resp, attempt, tlog, sent, rin, rout,
                   inst, cookie_jar, issued, activity>>

-----------------------------------------------------------------------------
(* The inputs: what callers pass and what the server can answer *)

VS1 == <<"VS1">>

VS2 == <<"VS2">>

VS3 == <<"VS3">>

CSRF1 == <<"CSRF1">>

CSRF2 == <<"CSRF2">>

BidForm == <<"bidSearchForm">>

BlanketForm == <<"contractBlanketSearchForm">>

FormIds == {BidForm, BlanketForm}

\* typed organization and vendor texts
OrgTexts == {<<"a">>, <<"b", "b">>}

VendorTexts == {<<"a", "a">>}

\* the calls search_bids and search_blankets make; results_form_id may be
\* left out by a caller of ajax_search
SearchRequests ==
    LET Fields(form, names, vals) ==
            {f \in UNION {[{FieldName(form, n) : n \in sub} -> UNION {vals[n] : n \in names}]
                          : sub \in SUBSET names}
               : \A n \in names : FieldName(form, n) \in DOMAIN f
                                  => f[FieldName(form, n)] \in vals[n]}
        Req(url, form, button, fields, results) ==
            [url |-> url, form |-> form, button |-> button, fields |-> fields,
             results |-> results]
    IN  {Req(<<"advancedSearchBid.xhtml">>, BidForm, FieldName(BidForm, "btnBidSearch"),
             f, r)
           : f \in Fields(BidForm, {"organization", "openBids"},
                          [n \in {"organization", "openBids"} |->
                              IF n = "organization" THEN OrgTexts ELSE {<<"true">>}]),
             r \in {None, <<"bidSearchResultsForm">>}}
        \cup
        {Req(<<"advancedSearchContractBlanket.xhtml">>, BlanketForm,
             FieldName(BlanketForm, "btnPoSearch"), f, r)
           : f \in Fields(BlanketForm, {"organization", "vendorName"},
                          [n \in {"organization", "vendorName"} |->
                              IF n = "organization" THEN OrgTexts ELSE VendorTexts]),
             r \in {None, <<"contractBlanketSearchResultsForm">>}}

\* the select lists of a search page of the form
OrgOptions == <<Option(<<"1020">>, <<"a", "b">>), Option(<<"1030">>, <<" ", "A", " ">>)>>

VendorOptions == <<Option(<<"V77">>, <<"A", "a">>)>>

\* search pages the server can answer with
SearchPages(form) ==
    {[inputs |-> vs \o csrf, searchNew |-> sn, selects |-> sel]
       : vs \in {<<>>, <<Hidden(K_VIEWSTATE, VS1, "nv")>>},
         csrf \in {<<>>, <<Hidden(K_CSRF, CSRF1, "vn")>>},
         sn \in {None} \cup {FieldName(f, "j_idt55") : f \in FormIds},
         sel \in {<<>>, <<Select(FieldName(form, "organization"), OrgOptions),
                          Select(FieldName(form, "vendorName"), VendorOptions)>>}}

\* partial responses to the reset POST: no view-state update, an update
\* with a new view-state and a new CSRF token, an update with an empty
\* view-state
ResetResponses(form) ==
    {<<Update(form, <<"<form/>">>)>>,
     <<Update(form, <<"<form/>">>), Update(K_VIEWSTATE, VS2), Update(K_CSRF, CSRF2)>>,
     <<Update(K_VIEWSTATE, <<>>)>>}

\* partial responses to the search POST
SearchResponses ==
    {<<>>,
     <<Update(<<"results">>, <<"<table>A</table>">>)>>,
     <<Update(<<"results">>, <<"<table>A</table>">>),
       Update(K_VIEWSTATE, VS3)>>}

\* bid detail pages
DetailPages ==
    {[inputs |-> vs \o csrf, searchNew |-> None, selects |-> <<>>]
       : vs \in {<<>>, <<Hidden(K_VIEWSTATE, VS1, "nv")>>},
         csrf \in {<<>>, <<Hidden(K_CSRF, CSRF1, "nv")>>}}

\* downloaded files: (content, filename)
Files ==
    {[content |-> <<"%", "P", "D", "F">>, filename |-> fn]
       : fn \in {None, <<"spec.pdf">>}}

\* statuses the server answers with besides success
ErrorStatus == {403, 404, 429, 500, 502, 503, 504}

Failures == {HTTPError(c) : c \in ErrorStatus} \cup {URLError, ReadError}

\* the bodies a successful exchange of the current call can carry
Bodies(fn) ==
    IF pc # fn THEN {}
    ELSE
    CASE call.cont = "page" -> SearchPages(form_id)
      [] call.cont = "reset" -> ResetResponses(form_id)
      [] call.cont = "search" -> SearchResponses
      [] call.cont = "detail" -> DetailPages
      [] call.cont = "file" -> Files

-----------------------------------------------------------------------------
(* The client: one operation per client run *)

\* the client instances of the two-instance runs, and an instance as
\* __init__ leaves it: nothing fetched, nothing sent
Clients == {"c1", "c2"}

NewInstance ==
    [pc |-> "idle", form |-> None, fields |-> EmptyDict, tokens |-> EmptyDict,
     reset_button_id |-> None, sent |-> <<>>]

Init ==
    /\ pc = "idle"
    /\ op = "none"
    /\ page_url = None
    /\ form_id = None
    /\ search_button_id = None
    /\ results_form_id = None
    /\ form_fields = EmptyDict
    /\ fields0 = EmptyDict
    /\ page_html = None
    /\ tokens = EmptyDict
    /\ reset_button_id = None
    /\ reset_response = None
    /\ call = None
    /\ resp = None
    /\ attempt = 0
    /\ tlog = <<>>
    /\ sent = <<>>
    /\ ret = None
    /\ exc = None
    /\ rin = None
    /\ rout = None
    /\ inst = [c \in Clients |-> NewInstance]
    /\ cookie_jar = [c \in Clients |-> {}]
    /\ issued = [c \in Clients |-> {}]
    /\ activity = Uncounted

Next ==
    \/ \E r \in SearchRequests : ajax_search(r.url, r.form, r.button, r.fields, r.results)
    \/ ajax_search_page
    \/ ajax_search_reset
    \/ ajax_search_search
    \/ \E p \in {None, <<"file.docx">>} :
          download_attachment(<<"BD-25-1020">>, <<"2095248">>, p)
    \/ download_attachment_detail
    \/ \E w \in BOOLEAN : download_attachment_file(w)
    \/ \E b \in Bodies("_make_request") : _make_request(Ok(b))
    \/ \E e \in Failures : _make_request(e)
    \/ \E b \in Bodies("_ajax_post") : _ajax_post(Ok(b))
    \/ \E e \in Failures : _ajax_post(e)
    \/ \E b \in Bodies("download_file") : download_file(Ok(b))
    \/ \E e \in Failures : download_file(e)

Spec == Init /\ [][Next]_vars

-----------------------------------------------------------------------------
(* Vocabulary of the properties *)

\* the requests issued, by phase
HasReq(ph) == \E i \in 1..Len(sent) : sent[i].phase = ph

Idx(ph) == Min({i \in 1..Len(sent) : sent[i].phase = ph})

Req(ph) == sent[Idx(ph)]

Count(ph) == Cardinality({i \in 1..Len(sent) : sent[i].phase = ph})

Posts == {i \in 1..Len(sent) : sent[i].method = "POST"}

\* the attempts of the current transport call, without the sleeps
Attempts == SelectSeq(tlog, LAMBDA e : e.ev = "attempt")

Sleeps == SelectSeq(tlog, LAMBDA e : e.ev = "sleep")

TransportFns == {"_make_request", "_ajax_post", "download_file"}

\* ajax_search has received the search page
PageArrived ==
    /\ op = "ajax_search"
    /\ \/ pc \in {"_ajax_post", "reset", "search", "done"}
       \/ pc = "raised" /\ exc.fn # "_make_request"

\* the page holds a view-state field with this value / holds none at all
PageHasViewState(v) ==
    \E i \in 1..Len(page_html.inputs) :
        page_html.inputs[i].name = K_VIEWSTATE /\ page_html.inputs[i].value = v

PageHasNoViewState ==
    \A i \in 1..Len(page_html.inputs) : page_html.inputs[i].name # K_VIEWSTATE

PageHasCsrf(v) ==
    \E i \in 1..Len(page_html.inputs) :
        page_html.inputs[i].name = K_CSRF /\ page_html.inputs[i].value = v

\* the searchNew script of the page names an id of this form
PageHasResetId ==
    /\ Len(page_html.searchNew) = 2
    /\ page_html.searchNew[1] = form_id[1]

\* a partial response carries this view-state / carries none
ResponseHasViewState(r, v) ==
    \E i \in 1..Len(r) : r[i].id = K_VIEWSTATE /\ r[i].cdata = v

ResponseHasNoViewState(r) ==
    \A i \in 1..Len(r) : r[i].id # K_VIEWSTATE \/ r[i].cdata = <<>>

-----------------------------------------------------------------------------
(* C1: when the search page holds view-state VS1 and a reset-action id of  *)
(* the form, a reset POST carrying VS1 is issued before the search POST,   *)
(* and the search POST carries VS2 when the reset response updated the     *)
(* view-state to VS2 and VS1 when the reset response updated none.         *)
C1_ResetBeforeSearch ==
    (PageArrived /\ PageHasViewState(VS1) /\ PageHasResetId) =>
        /\ HasReq("reset")
        /\ Req("reset").method = "POST"
        /\ Req("reset").data[K_VIEWSTATE] = VS1
        /\ Req("reset").data[K_SOURCE] = page_html.searchNew
        /\ HasReq("search") =>
              /\ Idx("reset") < Idx("search")
              /\ Count("reset") = 1 /\ Count("search") = 1
              /\ ResponseHasViewState(reset_response, VS2)
                    => Req("search").data[K_VIEWSTATE] = VS2
              /\ ResponseHasNoViewState(reset_response)
                    => Req("search").data[K_VIEWSTATE] = VS1

C1_Witness ==
    /\ PageArrived /\ pc = "done"
    /\ PageHasViewState(VS1) /\ PageHasResetId
    /\ ResponseHasViewState(reset_response, VS2)
    /\ Req("search").data[K_VIEWSTATE] = VS2

(* C2: a search page without a view-state token makes ajax_search raise    *)
(* RuntimeError, after one GET that was answered once and with no POST.    *)
C2_MissingViewState ==
    (PageArrived /\ PageHasNoViewState) =>
        /\ pc = "raised"
        /\ exc.t = "RuntimeError"
        /\ exc.t \notin {"HTTPError", "URLError", "ReadError"}
        /\ Len(sent) = 1
        /\ sent[1].method = "GET"
        /\ Posts = {}
        /\ Len(SelectSeq(Attempts, LAMBDA e : e.out.t = "ok")) = 1

C2_Witness ==
    /\ PageArrived /\ PageHasNoViewState
    /\ pc = "raised" /\ exc.t = "RuntimeError"
    /\ page_html.searchNew # None

(* C3: a search page with a view-state but no reset-action id of the form  *)
(* leads to exactly one POST, the search POST with the page's view-state,  *)
(* and the call returns the unwrapped search response.                     *)
C3_ResetSkipped ==
    (PageArrived /\ PageHasViewState(VS1) /\ ~PageHasResetId) =>
        /\ ~HasReq("reset")
        /\ Posts = {2}
        /\ sent[2].phase = "search"
        /\ sent[2].data[K_VIEWSTATE] = VS1
        /\ sent[2].data[K_SOURCE] = search_button_id
        /\ pc = "raised" => exc.fn = "_ajax_post"
        /\ pc = "done" => /\ Attempts[Len(Attempts)].out.t = "ok"
                          /\ ret = _parse_ajax_response(Attempts[Len(Attempts)].out.body)

C3_Witness ==
    /\ PageArrived /\ pc = "done"
    /\ PageHasViewState(VS1) /\ ~PageHasResetId
    /\ Len(sent) = 2
    /\ ret # <<>>

(* C4: a transport call answered 503, 503, success returns the third      *)
(* attempt's body after exactly two sleeps, of 2 and then 4 seconds, each  *)
(* between a failed attempt and the next one.                              *)
C4_TwoFailuresThenSuccess ==
    (/\ Len(Attempts) = 3
     /\ Attempts[1].out.t = "HTTPError" /\ Attempts[1].out.code = 503
     /\ Attempts[2].out.t = "HTTPError" /\ Attempts[2].out.code = 503
     /\ Attempts[3].out.t = "ok") =>
        /\ pc \notin TransportFns
        /\ pc = "raised" => exc.fn \notin TransportFns
        /\ resp = Attempts[3].out.body
        /\ Len(tlog) = 5
        /\ \A i \in {1, 3, 5} : tlog[i].ev = "attempt"
        /\ tlog[2].ev = "sleep" /\ tlog[2].wait = 2
        /\ tlog[4].ev = "sleep" /\ tlog[4].wait = 4
        /\ Len(Sleeps) = 2
        /\ Sleeps[1].wait <= Sleeps[2].wait

C4_Witness ==
    /\ pc = "file"
    /\ call.fn = "download_file"
    /\ Len(Attempts) = 3
    /\ Attempts[1].out.t = "HTTPError" /\ Attempts[1].out.code = 503
    /\ Attempts[2].out.t = "HTTPError" /\ Attempts[2].out.code = 503
    /\ Attempts[3].out.t = "ok"

\* the failures the transport retries
Retryable(o) ==
    \/ o.t = "HTTPError" /\ o.code \in {429, 500, 502, 503, 504}
    \/ o.t = "URLError"

(* C5: a transport call whose every attempt fails with a retryable error   *)
(* makes exactly three attempts and raises the third attempt's error       *)
(* unchanged; no call makes a fourth attempt or sleeps after its last one. *)
C5_RetriesExhausted ==
    /\ Len(Attempts) <= 3
    /\ Len(Attempts) = 3 => tlog[Len(tlog)].ev = "attempt"
    /\ (/\ pc \notin TransportFns
        /\ Attempts # <<>>
        /\ \A i \in 1..Len(Attempts) : Retryable(Attempts[i].out)) =>
            /\ pc = "raised"
            /\ Len(Attempts) = 3
            /\ Len(Sleeps) = 2
            /\ exc.t = Attempts[3].out.t
            /\ exc.code = Attempts[3].out.code
            /\ exc.attempt = 2
            /\ exc.fn = call.fn

C5_Witness ==
    /\ pc = "raised"
    /\ call.fn = "_make_request"
    /\ Len(Attempts) = 3
    /\ Attempts[1].out.t = "URLError"
    /\ Attempts[2].out.t = "HTTPError" /\ Attempts[2].out.code = 429
    /\ Attempts[3].out.t = "HTTPError" /\ Attempts[3].out.code = 504
    /\ exc.code = 504

(* C6: a phase of ajax_search whose transport call failed ends the call    *)
(* with exactly that error; a request is issued only after the request     *)
(* before it was answered successfully, and no phase is requested twice.   *)
C6_NoProtocolRetry ==
    /\ [](pc = "raised" /\ exc.fn \in TransportFns =>
            /\ exc.t = tlog[Len(tlog)].out.t
            /\ exc.code = tlog[Len(tlog)].out.code
            /\ exc.attempt = tlog[Len(tlog)].n
            /\ sent[Len(sent)].fn = exc.fn
            /\ \A i, j \in 1..Len(sent) : sent[i].phase = sent[j].phase => i = j
            /\ sent[Len(sent)].phase = "reset" => ~HasReq("search"))
    /\ [][Len(sent') > Len(sent) =>
            /\ pc # "raised"
            /\ Len(sent') = Len(sent) + 1
            /\ ~HasReq(sent'[Len(sent')].phase)
            /\ sent # <<>> => /\ tlog # <<>>
                              /\ tlog[Len(tlog)].ev = "attempt"
                              /\ tlog[Len(tlog)].out.t = "ok"]_vars

C6_Witness ==
    /\ op = "ajax_search"
    /\ pc = "raised" /\ exc.fn = "_ajax_post"
    /\ exc.t = "HTTPError" /\ exc.code = 503
    /\ sent[Len(sent)].phase = "reset"

(* C7: a connection failure without HTTP status, raised while the          *)
(* connection is opened or while the body is read, on an attempt before    *)
(* the last is followed by a backoff sleep and a further attempt.          *)
C7_ConnectionFailureRetried ==
    \A i \in 1..Len(tlog) :
        (/\ tlog[i].ev = "attempt"
         /\ tlog[i].out.t \in {"URLError", "ReadError"}
         /\ tlog[i].n < MAX_RETRIES - 1) =>
            /\ pc # "raised"
            /\ i < Len(tlog)
            /\ tlog[i + 1].ev = "sleep"
            /\ tlog[i + 1].wait = 2 ^ (tlog[i].n + 1)

\* the dropdown resolver applied to any field of the page
ResolveOption(html_text, field_name, text) ==
    IF HasSelect(html_text, field_name)
    THEN MatchOption(SelectOptions(html_text, field_name), text)
    ELSE text

OrgField == FieldName(form_id, "organization")

VendorField == FieldName(form_id, "vendorName")

(* C8 as claimed: the search POST carries, for the organization field and  *)
(* for the vendor field of the mapping, the option code the dropdown       *)
(* resolver finds for the typed text in the fetched page.                  *)
C8_OrgAndVendorResolved ==
    (PageArrived /\ HasReq("search")) =>
        \A k \in {OrgField, VendorField} \cap DOMAIN fields0 :
            Req("search").data[k] = ResolveOption(page_html, k, fields0[k])

(* C8 as amended: the search POST carries the resolved option code for     *)
(* the organization field and the text as typed for the vendor field.      *)
C8_OrgResolvedVendorTyped ==
    (PageArrived /\ HasReq("search")) =>
        /\ OrgField \in DOMAIN fields0 =>
              Req("search").data[OrgField]
                  = ResolveOption(page_html, OrgField, fields0[OrgField])
        /\ VendorField \in DOMAIN fields0 =>
              Req("search").data[VendorField] = fields0[VendorField]

C8_Witness ==
    /\ PageArrived /\ HasReq("search")
    /\ OrgField \in DOMAIN fields0 /\ VendorField \in DOMAIN fields0
    /\ fields0[OrgField] = <<"a">>
    /\ Req("search").data[OrgField] = <<"1030">>
    /\ HasSelect(page_html, VendorField)
    /\ Req("search").data[VendorField] = <<"a", "a">>

\* every key of the mapping is f"{form_id}:<name>"
Namespaced(fields) ==
    \A k \in DOMAIN fields : Len(k) = Len(form_id) + 1 /\ SubSeq(k, 1, Len(form_id)) = form_id

(* C9: the search POST names the search button as event source, the        *)
(* results region (the form id when none was given) as render target, the  *)
(* held view-state and CSRF token, and every entry of the field mapping;   *)
(* fields namespaced by the form id overwrite none of these parameters.    *)
C9_SearchPost ==
    (PageArrived /\ HasReq("search")) =>
        LET d == Req("search").data IN
        /\ Req("search").method = "POST"
        /\ \A k \in DOMAIN form_fields : k \in DOMAIN d /\ d[k] = form_fields[k]
        /\ Namespaced(form_fields) =>
              /\ d[K_SOURCE] = search_button_id
              /\ d[K_RENDER] = IF results_form_id = None THEN form_id ELSE results_form_id
              /\ d[K_VIEWSTATE] = tokens[K_VIEWSTATE]
              /\ K_CSRF \in DOMAIN d <=> K_CSRF \in DOMAIN tokens
              /\ K_CSRF \in DOMAIN d => d[K_CSRF] = tokens[K_CSRF]

C9_Witness ==
    /\ PageArrived /\ HasReq("search")
    /\ results_form_id # None
    /\ Req("search").data[K_RENDER] = results_form_id
    /\ Req("search").data[K_VIEWSTATE] = VS2
    /\ DOMAIN form_fields = {OrgField, VendorField}
    /\ K_CSRF \in DOMAIN Req("search").data

-----------------------------------------------------------------------------
(* The dropdown resolver on its own: _resolve_org_code applied to every    *)
(* page and typed text within the bounds                                   *)

MaxOptions == 2

MaxLabelLen == 2

MaxTermLen == 1

Chars == {"a", "A", " "}

\* the texts of at most n characters
Texts(n) == UNION {[1..k -> Chars] : k \in 0..n}

\* the labels and the typed texts within the bounds
Labels == Texts(MaxLabelLen)

Terms == Texts(MaxTermLen)

\* an option list with these labels; the i-th option has the value "i"
OptionList(labels) ==
    [i \in 1..Len(labels) |-> Option(<<ToString(i)>>, labels[i])]

\* a select list of another field, which the resolver must pass over
OtherSelect == Select(FieldName(BidForm, "category"), <<Option(<<"0">>, <<"a">>)>>)

ResolveInput(sel, t) ==
    [html_text |-> [inputs |-> <<>>, searchNew |-> None, selects |-> sel],
     form |-> BidForm, org_text |-> t]

InitResolve ==
    /\ pc = "resolve"
    /\ \E t \in Terms :
          \/ \E sel \in {<<>>, <<OtherSelect>>} : rin = ResolveInput(sel, t)
          \/ \E k \in 0..MaxOptions : \E labels \in [1..k -> Labels] :
                rin = ResolveInput(<<OtherSelect,
                                     Select(FieldName(BidForm, "organization"),
                                            OptionList(labels))>>, t)
    /\ rout = None
    /\ op = "_resolve_org_code"
    /\ page_url = None
    /\ form_id = None
    /\ search_button_id = None
    /\ results_form_id = None
    /\ form_fields = EmptyDict
    /\ fields0 = EmptyDict
    /\ page_html = None
    /\ tokens = EmptyDict
    /\ reset_button_id = None
    /\ reset_response = None
    /\ call = None
    /\ resp = None
    /\ attempt = 0
    /\ tlog = <<>>
    /\ sent = <<>>
    /\ ret = None
    /\ exc = None
    /\ inst = [c \in Clients |-> NewInstance]
    /\ cookie_jar = [c \in Clients |-> {}]
    /\ issued = [c \in Clients |-> {}]
    /\ activity = Uncounted

resolve ==
    /\ pc = "resolve"
    /\ rout' = _resolve_org_code(rin.html_text, rin.form, rin.org_text)
    /\ pc' = "resolved"
    /\ UNCHANGED <<op, page_url, form_id, search_button_id, results_form_id,
                   form_fields, fields0, page_html, tokens, reset_button_id,
                   reset_response, call, resp, attempt, tlog, sent, ret, exc, rin,
                   inst, cookie_jar, issued, activity>>

NextResolve == resolve

SpecResolve == InitResolve /\ [][NextResolve]_vars

\* the select list of the organization field in the resolver's page
OrgSelects ==
    {i \in 1..Len(rin.html_text.selects)
       : rin.html_text.selects[i].name = FieldName(rin.form, "organization")}

OrgSelectOptions == rin.html_text.selects[Min(OrgSelects)].options

\* the label of an option is its text without surrounding white space
Label(o) == Strip(o.text)

SameIgnoringCase(a, b) == Lower(a) = Lower(b)

ContainsIgnoringCase(a, b) == Contains(Lower(b), Lower(a))

(* C10: the resolver returns the value of the first option whose label     *)
(* equals the typed text ignoring case, also when an earlier option only   *)
(* contains it; failing that, the value of the first option whose label    *)
(* contains the text ignoring case; failing that, or without a select list *)
(* of the field, the typed text itself.                                    *)
C10_ExactThenSubstring ==
    pc = "resolved" =>
        IF OrgSelects = {} THEN rout = rin.org_text
        ELSE LET opts == OrgSelectOptions
                 Exact == {i \in 1..Len(opts) : SameIgnoringCase(Label(opts[i]), rin.org_text)}
                 Part == {i \in 1..Len(opts) : ContainsIgnoringCase(Label(opts[i]), rin.org_text)}
             IN  /\ Exact # {} =>
                       \E i \in Exact : (\A j \in Exact : i <= j) /\ rout = opts[i].value
                 /\ (Exact = {} /\ Part # {}) =>
                       \E i \in Part : (\A j \in Part : i <= j) /\ rout = opts[i].value
                 /\ Part = {} => rout = rin.org_text

C10_Witness ==
    /\ pc = "resolved"
    /\ OrgSelects # {}
    /\ rin.org_text = <<"a">>
    /\ Len(OrgSelectOptions) = 2
    /\ OrgSelectOptions[1].text = <<"a", "A">>
    /\ OrgSelectOptions[2].text = <<"A", " ">>
    /\ rout = <<"2">>

-----------------------------------------------------------------------------
\* download_attachment has received the detail page and gone on from it
DetailArrived ==
    /\ op = "download_attachment"
    /\ \/ pc \in {"download_file", "file", "done"}
       \/ pc = "raised" /\ exc.fn # "_make_request"

\* the hidden _csrf fields of the page that hold a value
CsrfFields == {i \in 1..Len(page_html.inputs) : /\ page_html.inputs[i].name = K_CSRF
                                                /\ page_html.inputs[i].value # <<>>}

(* C13: download_attachment first GETs the detail page of the document id  *)
(* and POSTs to the download endpoint only after that page has arrived;    *)
(* the POST carries the document id, the attachment id, mode=download and  *)
(* nothing else but the page's CSRF token, which it carries exactly when   *)
(* the page holds one; the POST is issued whether or not the page holds a  *)
(* view-state; when the GET fails no POST is issued.                       *)
C13_DetailThenDownload ==
    op = "download_attachment" =>
        /\ sent[1].phase = "detail"
        /\ sent[1].method = "GET"
        /\ sent[1].url = BID_DETAIL_URL
        /\ sent[1].data[K_DOCID] = form_fields[K_DOCID]
        /\ \A i \in 2..Len(sent) : sent[i].phase = "file" /\ sent[i].method = "POST"
        /\ Len(sent) <= 2
        /\ HasReq("file") <=> DetailArrived
        /\ (pc = "raised" /\ exc.fn = "_make_request") => ~HasReq("file")
        /\ DetailArrived =>
              LET d == Req("file").data
              IN  /\ Req("file").url = BID_DETAIL_DOWNLOAD_URL
                  /\ d[K_DOCID] = form_fields[K_DOCID]
                  /\ d[K_FILENBR] = form_fields[K_FILENBR]
                  /\ d[K_MODE] = <<"download">>
                  /\ DOMAIN d \subseteq {K_DOCID, K_FILENBR, K_MODE, K_CSRF}
                  /\ K_CSRF \in DOMAIN d <=> CsrfFields # {}
                  /\ K_CSRF \in DOMAIN d =>
                        \E i \in CsrfFields : d[K_CSRF] = page_html.inputs[i].value

\* a detail page with a CSRF token and without a view-state, and the file
\* downloaded through a POST that carries the token
C13_Witness ==
    /\ op = "download_attachment"
    /\ pc = "done"
    /\ PageHasCsrf(CSRF1)
    /\ \A i \in 1..Len(page_html.inputs) : page_html.inputs[i].name # K_VIEWSTATE
    /\ Req("file").data[K_CSRF] = CSRF1
    /\ Req("file").data[K_FILENBR] = <<"2095248">>

-----------------------------------------------------------------------------
(* Pure functions on their own: a function is applied to an input drawn    *)
(* from a bounded set; no client is running                                *)

ClientIdle ==
    /\ page_url = None
    /\ form_id = None
    /\ search_button_id = None
    /\ results_form_id = None
    /\ form_fields = EmptyDict
    /\ fields0 = EmptyDict
    /\ page_html = None
    /\ tokens = EmptyDict
    /\ reset_button_id = None
    /\ reset_response = None
    /\ call = None
    /\ resp = None
    /\ attempt = 0
    /\ tlog = <<>>
    /\ sent = <<>>
    /\ ret = None
    /\ exc = None
    /\ inst = [c \in Clients |-> NewInstance]
    /\ cookie_jar = [c \in Clients |-> {}]
    /\ issued = [c \in Clients |-> {}]
    /\ activity = Uncounted

ClientFrame ==
    UNCHANGED <<op, page_url, form_id, search_button_id, results_form_id, form_fields,
                fields0, page_html, tokens, reset_button_id, reset_response, call,
                resp, attempt, tlog, sent, ret, rin, inst, cookie_jar, issued, activity>>

-----------------------------------------------------------------------------
(* _parse_ajax_response on its own: partial responses of up to MaxBlocks   *)
(* <update> elements, each carrying one CDATA block                        *)

MaxBlocks == 3

\* contents of a CDATA block: an HTML fragment, a two-symbol text, nothing
BlockContents ==
    {<<>>, <<"<table>A</table>">>, <<"<table>B</table>">>, <<"<tr>", "</tr>">>}

InitUnwrap ==
    /\ pc = "unwrap"
    /\ op = "_parse_ajax_response"
    /\ \E n \in 0..MaxBlocks : \E blocks \in [1..n -> BlockContents] :
          rin = [i \in 1..n |-> Update(<<"u">>, blocks[i])]
    /\ rout = None
    /\ ClientIdle

unwrap ==
    /\ pc = "unwrap"
    /\ rout' = _parse_ajax_response(rin)
    /\ pc' = "unwrapped"
    /\ UNCHANGED exc
    /\ ClientFrame

NextUnwrap == unwrap

SpecUnwrap == InitUnwrap /\ [][NextUnwrap]_vars

\* where the i-th block begins in the joined text: after the blocks before
\* it and one separator for each of them
RECURSIVE BlockStart(_, _)
BlockStart(blocks, i) ==
    IF i = 1 THEN 0 ELSE BlockStart(blocks, i - 1) + Len(blocks[i - 1].cdata) + 1

(* C11: unwrapping a partial response with n CDATA blocks gives the        *)
(* blocks' contents in document order with exactly one newline between     *)
(* consecutive blocks and nothing else; blocks "<table>A</table>" and      *)
(* "<table>B</table>" give "<table>A</table>\n<table>B</table>"; without   *)
(* any block the result is the empty string.                               *)
C11_UnwrapJoinsBlocks ==
    pc = "unwrapped" =>
        LET n == Len(rin)
        IN  /\ n = 0 => rout = <<>>
            /\ n > 0 => Len(rout) = BlockStart(rin, n) + Len(rin[n].cdata)
            /\ \A i \in 1..n :
                  SubSeq(rout, BlockStart(rin, i) + 1,
                         BlockStart(rin, i) + Len(rin[i].cdata)) = rin[i].cdata
            /\ \A i \in 2..n : rout[BlockStart(rin, i)] = "\n"
            /\ (/\ n = 2
                /\ rin[1].cdata = <<"<table>A</table>">>
                /\ rin[2].cdata = <<"<table>B</table>">>)
               => rout = <<"<table>A</table>", "\n", "<table>B</table>">>

C11_Witness ==
    /\ pc = "unwrapped"
    /\ Len(rin) = 2
    /\ rin[1].cdata = <<"<table>A</table>">>
    /\ rin[2].cdata = <<"<table>B</table>">>
    /\ rout = <<"<table>A</table>", "\n", "<table>B</table>">>

-----------------------------------------------------------------------------
(* Two client instances, each running ajax_search in a thread of its own.  *)
(* A step of an instance is one HTTP exchange with what the instance does  *)
(* between two exchanges; the steps of the two instances interleave        *)
(* freely.  The transport's retries are folded into the exchange: it ends  *)
(* with a body or with the exception the retry loop raises.  The server    *)
(* keeps a session per cookie and never hands out a value twice.           *)

\* variant: one cookie store for the whole process
CookieJarOf_singleton(c) == "c1"

\* self.cookie_jar = CookieJar(): the store instance c sends and keeps
\* cookies with is the one it constructed itself
CookieJarOf(c) == c

\* the fields an instance searches with
TwoFields(form) ==
    {EmptyDict, DictOf(<< <<FieldName(form, "organization"), <<"a">> >> >>)}

\* a value the server has not handed out before
Fresh(kind) ==
    <<kind, ToString(Cardinality(UNION {issued[c] : c \in Clients}) + 1)>>

\* the values handed to an instance, and those of one kind
IssuedValues(c) == {g.value : g \in issued[c]}

IssuedBy(c, kinds) == {g.value : g \in {h \in issued[c] : h.kind \in kinds}}

\* opener.open(req): the request leaves with the cookies of the store
Exchange(c, phase, method, data, jars) ==
    [phase |-> phase, method |-> method, data |-> data,
     cookies |-> jars[CookieJarOf(c)]]

\* the response comes back: a request without a cookie opens a session,
\* and the cookie processor stores the session cookie
Received(c, kind, values) ==
    LET jar == CookieJarOf(c)
        cookie == Fresh("JSESSIONID")
        had == inst[c].sent[Len(inst[c].sent)].cookies # {}
    IN  /\ cookie_jar' = IF had THEN cookie_jar
                         ELSE [cookie_jar EXCEPT ![jar] = @ \cup {cookie}]
        /\ issued' = [issued EXCEPT ![c] =
                         @ \cup {[kind |-> kind, value |-> v] : v \in values}
                           \cup (IF had THEN {} ELSE {[kind |-> "cookie", value |-> cookie]})]

TwoFrame ==
    UNCHANGED <<pc, op, page_url, form_id, search_button_id, results_form_id,
                form_fields, fields0, page_html, tokens, reset_button_id,
                reset_response, call, resp, attempt, tlog, sent, ret, exc, rin, rout,
                activity>>

\* instance c calls ajax_search: the page GET leaves
two_ajax_search(c, form, fields) ==
    /\ inst[c].pc = "idle"
    /\ inst' = [inst EXCEPT ![c] =
                   [@ EXCEPT !.pc = "page", !.form = form, !.fields = fields,
                             !.sent = Append(@, Exchange(c, "page", "GET", EmptyDict, cookie_jar))]]
    /\ UNCHANGED <<cookie_jar, issued>>
    /\ TwoFrame

\* the page arrives at instance c with a view-state (or none), a CSRF token
\* (or none) and a reset button (or none); the reset or the search POST leaves
two_page(c, has_vs, has_csrf, has_reset) ==
    /\ inst[c].pc = "page"
    /\ LET vs == <<"vs">> \o Fresh("page")
           csrf == <<"csrf">> \o Fresh("page")
           form == inst[c].form
           page == [inputs |-> (IF has_vs THEN <<Hidden(K_VIEWSTATE, vs, "nv")>> ELSE <<>>)
                               \o (IF has_csrf THEN <<Hidden(K_CSRF, csrf, "vn")>> ELSE <<>>),
                    searchNew |-> IF has_reset THEN FieldName(form, "j_idt55") ELSE None,
                    selects |-> <<Select(FieldName(form, "organization"), OrgOptions)>>]
           toks == _extract_tokens(page)
           fields == ResolveFields(page, form, inst[c].fields)
           button == _find_reset_button(page, form)
           search_button == FieldName(form, "btnSearch")
       IN  /\ Received(c, "page", (IF has_vs THEN {vs} ELSE {})
                                  \cup (IF has_csrf THEN {csrf} ELSE {}))
           /\ IF K_VIEWSTATE \notin DOMAIN toks
              THEN inst' = [inst EXCEPT ![c] = [@ EXCEPT !.pc = "raised", !.tokens = toks]]
              ELSE inst' = [inst EXCEPT ![c] =
                       [@ EXCEPT !.tokens = toks,
                                 !.fields = fields,
                                 !.reset_button_id = button,
                                 !.pc = IF Truthy(button) THEN "reset" ELSE "search",
                                 !.sent = Append(@,
                                     IF Truthy(button)
                                     THEN Exchange(c, "reset", "POST",
                                                   ResetData(form, button, toks), cookie_jar')
                                     ELSE Exchange(c, "search", "POST",
                                                   SearchData(form, search_button, None,
                                                              toks, fields),
                                                   cookie_jar'))]]
    /\ TwoFrame

\* the reset response arrives at instance c, with or without a new
\* view-state; the search POST leaves
two_reset(c, has_vs) ==
    /\ inst[c].pc = "reset"
    /\ LET new == <<"vs">> \o Fresh("reset")
           form == inst[c].form
           response == <<Update(form, <<"<form/>">>)>>
                       \o (IF has_vs THEN <<Update(K_VIEWSTATE, new)>> ELSE <<>>)
           vs == UpdatedViewState(response)
           toks == IF vs # None THEN DictSet(inst[c].tokens, K_VIEWSTATE, vs)
                   ELSE inst[c].tokens
       IN  /\ Received(c, "reset", IF has_vs THEN {new} ELSE {})
           /\ inst' = [inst EXCEPT ![c] =
                  [@ EXCEPT !.tokens = toks,
                            !.pc = "search",
                            !.sent = Append(@, Exchange(c, "search", "POST",
                                                SearchData(form, FieldName(form, "btnSearch"),
                                                           None, toks, inst[c].fields),
                                                cookie_jar'))]]
    /\ TwoFrame

\* the search response arrives at instance c: ajax_search returns
two_search(c, has_vs) ==
    /\ inst[c].pc = "search"
    /\ Received(c, "search", IF has_vs THEN {<<"vs">> \o Fresh("search")} ELSE {})
    /\ inst' = [inst EXCEPT ![c] = [@ EXCEPT !.pc = "done"]]
    /\ TwoFrame

\* the retry loop of the exchange in progress gives up: ajax_search raises
two_raise(c) ==
    /\ inst[c].pc \in {"page", "reset", "search"}
    /\ inst' = [inst EXCEPT ![c] = [@ EXCEPT !.pc = "raised"]]
    /\ UNCHANGED <<cookie_jar, issued>>
    /\ TwoFrame

InitTwo ==
    /\ pc = "two"
    /\ op = "ajax_search"
    /\ rin = None
    /\ rout = None
    /\ ClientIdle

NextTwo ==
    \/ \E c \in Clients : \E form \in FormIds : \E fields \in TwoFields(form) :
          two_ajax_search(c, form, fields)
    \/ \E c \in Clients : \E has_vs, has_csrf, has_reset \in BOOLEAN :
          two_page(c, has_vs, has_csrf, has_reset)
    \/ \E c \in Clients : \E has_vs \in BOOLEAN : two_reset(c, has_vs)
    \/ \E c \in Clients : \E has_vs \in BOOLEAN : two_search(c, has_vs)
    \/ \E c \in Clients : two_raise(c)

SpecTwo == InitTwo /\ [][NextTwo]_vars

\* the requests of an instance, and the values a request carries
Posts2(c) ==
    {i \in 1..Len(inst[c].sent) : inst[c].sent[i].method = "POST"}

Carried(r) == {r.data[k] : k \in DOMAIN r.data} \cup r.cookies

(* C12: with two instances running ajax_search under any interleaving of   *)
(* their exchanges, the view-state of a reset POST is the one of the       *)
(* instance's own page, the view-state of a search POST is the one of its  *)
(* own page or of its own reset response, a CSRF token is the one of its   *)
(* own page, the cookies of every request are cookies the server set in    *)
(* answers to the same instance, and nothing the server handed to one      *)
(* instance is carried by a request of the other.                          *)
C12_InstancesIsolated ==
    \A c \in Clients :
        /\ \A i \in 1..Len(inst[c].sent) :
              LET r == inst[c].sent[i]
              IN  /\ r.cookies \subseteq IssuedBy(c, {"cookie"})
                  /\ r.cookies \subseteq cookie_jar[c]
                  /\ \A d \in Clients \ {c} : Carried(r) \cap IssuedValues(d) = {}
        /\ \A i \in Posts2(c) :
              LET r == inst[c].sent[i]
              IN  /\ K_VIEWSTATE \in DOMAIN r.data
                  /\ r.phase = "reset" => r.data[K_VIEWSTATE] \in IssuedBy(c, {"page"})
                  /\ r.phase = "search" =>
                        r.data[K_VIEWSTATE] \in IssuedBy(c, {"page", "reset"})
                  /\ K_CSRF \in DOMAIN r.data => r.data[K_CSRF] \in IssuedBy(c, {"page"})

\* both instances have their search POST in flight at the same time, each
\* after a page fetch and a reset of its own
C12_Witness ==
    /\ \A c \in Clients :
          /\ inst[c].pc = "search"
          /\ Len(inst[c].sent) = 3
          /\ K_CSRF \in DOMAIN inst[c].sent[3].data
          /\ inst[c].sent[3].cookies # {}
    /\ inst["c1"].sent[3].data[K_VIEWSTATE] # inst["c2"].sent[3].data[K_VIEWSTATE]
    /\ inst["c1"].sent[3].cookies # inst["c2"].sent[3].cookies

-----------------------------------------------------------------------------
(* The record extractors.  A result fragment is a sequence of table rows   *)
(* [data_ri, cells]: data_ri tells whether the <tr> carries a data-ri      *)
(* attribute, cells are the contents of its <td> elements in order.  The   *)
(* content of a cell is a text whose symbols are words, white space,       *)
(* entities and tags.                                                      *)

Row(ri, cells) == [data_ri |-> ri, cells |-> cells]

\* the tags that occur in cells; a link may carry a vendorId parameter
Tags == {"<b>", "</b>", "<a href='?vendorId=V1&x=1'>", "<a href='?VENDORID=V2'>",
         "<a href='#'>", "</a>", "<a onclick=downloadFile('7')>",
         "<a onclick=downloadFile('8')>", "<tr>", "</tr>", "<td>", "</td>"}

\* re.sub(r"<[^>]+>", " ", text)
ReplaceTags(text) == [i \in 1..Len(text) |-> IF text[i] \in Tags THEN " " ELSE text[i]]

\* html.unescape: &amp; is an ampersand, &nbsp; a no-break space
UnescapeChar(c) ==
    CASE c = "&amp;" -> "&"
      [] c = "&nbsp;" -> "NBSP"
      [] OTHER -> c

Unescape(text) == [i \in 1..Len(text) |-> UnescapeChar(text[i])]

\* \s of the regular expressions: space, line break, no-break space
IsWhite(c) == c \in {" ", "\n", "NBSP"}

\* re.sub(r"\s+", " ", clean)
RECURSIVE Collapse(_)
Collapse(text) ==
    IF text = <<>> THEN <<>>
    ELSE IF IsWhite(Head(text))
         THEN IF Len(text) > 1 /\ IsWhite(text[2]) THEN Collapse(Tail(text))
              ELSE <<" ">> \o Collapse(Tail(text))
         ELSE <<Head(text)>> \o Collapse(Tail(text))

strip_tags(text) == Strip(Collapse(Unescape(ReplaceTags(text))))

\* row_blocks: the rows the data-ri pattern finds
DataRows(html_text) == SelectSeq(html_text, LAMBDA r : r.data_ri)

\* a dict key without a colon
Key(name) == <<name>>

\* seq[i] of Python, i counted from 0: IndexError outside the list
IndexError == <<"<IndexError>">>

At(seq, i) == IF i < Len(seq) THEN seq[i + 1] ELSE IndexError

\* variant: the degraded shape is accepted from 4 cells on
BidRowSkipped_from_four(cells) == Len(cells) < 4

\* if len(cells) < 6: continue
BidRowSkipped(cells) == Len(cells) < 6

\* the body of the loop of parse_bid_search_results for a row that is kept
BidResult(cells) ==
    LET cell_texts == [i \in 1..Len(cells) |-> strip_tags(cells[i])]
        result == DictOf(<< <<Key("bid_number"), At(cell_texts, 0)>> >>)
    IN  IF Len(cells) >= 12
        THEN DictUpdate(result,
                 DictOf(<< <<Key("organization"), At(cell_texts, 2)>>,
                           <<Key("buyer"), At(cell_texts, 5)>>,
                           <<Key("description"), At(cell_texts, 6)>>,
                           <<Key("open_date"), At(cell_texts, 7)>>,
                           <<Key("status"), At(cell_texts, 10)>> >>))
        ELSE IF Len(cells) >= 6
        THEN DictUpdate(result,
                 DictOf(<< <<Key("description"), At(cell_texts, 1)>>,
                           <<Key("organization"), At(cell_texts, 2)>>,
                           <<Key("open_date"), At(cell_texts, 4)>> >>))
        ELSE result

parse_bid_search_results(html_text) ==
    LET kept == SelectSeq(DataRows(html_text), LAMBDA r : ~BidRowSkipped(r.cells))
    IN  [i \in 1..Len(kept) |-> BidResult(kept[i].cells)]

\* variant: the rich shape is taken from 13 cells on
BlanketResult_rich_from_thirteen(cells) ==
    LET cell_texts == [i \in 1..Len(cells) |-> strip_tags(cells[i])]
        result == DictOf(<< <<Key("contract_number"), At(cell_texts, 0)>> >>)
    IN  IF Len(cells) >= 13
        THEN DictUpdate(result,
                 DictOf(<< <<Key("bid_number"), At(cell_texts, 2)>>,
                           <<Key("description"), At(cell_texts, 4)>>,
                           <<Key("vendor"), At(cell_texts, 5)>>,
                           <<Key("type"), At(cell_texts, 6)>>,
                           <<Key("amount"), At(cell_texts, 7)>>,
                           <<Key("organization"), At(cell_texts, 8)>>,
                           <<Key("status"), At(cell_texts, 9)>>,
                           <<Key("start_date"), At(cell_texts, 10)>>,
                           <<Key("end_date"), At(cell_texts, 11)>> >>))
        ELSE IF Len(cells) >= 5
        THEN DictSet(result, Key("description"), At(cell_texts, 4))
        ELSE result

\* the body of the loop of parse_blanket_search_results for a row that is kept
BlanketResult(cells) ==
    LET cell_texts == [i \in 1..Len(cells) |-> strip_tags(cells[i])]
        result == DictOf(<< <<Key("contract_number"), At(cell_texts, 0)>> >>)
    IN  IF Len(cells) >= 12
        THEN DictUpdate(result,
                 DictOf(<< <<Key("bid_number"), At(cell_texts, 2)>>,
                           <<Key("description"), At(cell_texts, 4)>>,
                           <<Key("vendor"), At(cell_texts, 5)>>,
                           <<Key("type"), At(cell_texts, 6)>>,
                           <<Key("amount"), At(cell_texts, 7)>>,
                           <<Key("organization"), At(cell_texts, 8)>>,
                           <<Key("status"), At(cell_texts, 9)>>,
                           <<Key("start_date"), At(cell_texts, 10)>>,
                           <<Key("end_date"), At(cell_texts, 11)>> >>))
        ELSE IF Len(cells) >= 5
        THEN DictSet(result, Key("description"), At(cell_texts, 4))
        ELSE result

parse_blanket_search_results(html_text) ==
    LET kept == SelectSeq(DataRows(html_text), LAMBDA r : ~(Len(r.cells) < 5))
    IN  [i \in 1..Len(kept) |-> BlanketResult(kept[i].cells)]

\* the value of the vendorId parameter a symbol carries: what
\* vendorId=([^&"']+) captures, letter case ignored
VendorIdOf(c) ==
    CASE c = "<a href='?vendorId=V1&x=1'>" -> <<"V1">>
      [] c = "<a href='?VENDORID=V2'>" -> <<"V2">>
      [] OTHER -> None

\* re.search(r"vendorId=([^&\"']+)", block): the first one in the row
VendorIdMatch(cells) ==
    LET RECURSIVE Flat(_)
        Flat(cs) == IF cs = <<>> THEN <<>> ELSE Head(cs) \o Flat(Tail(cs))
        block == Flat(cells)
        m == {i \in 1..Len(block) : VendorIdOf(block[i]) # None}
    IN  IF m = {} THEN None ELSE VendorIdOf(block[Min(m)])

\* the body of the loop of parse_vendor_search_results, up to the test of
\* the vendor name
VendorResult(cells) ==
    LET cell_texts == [i \in 1..Len(cells) |-> strip_tags(cells[i])]
        vendor_id_match == VendorIdMatch(cells)
        result == IF vendor_id_match # None
                  THEN DictOf(<< <<Key("vendor_id"), vendor_id_match>> >>)
                  ELSE EmptyDict
    IN  IF Len(cells) >= 9
        THEN DictUpdate(result,
                 DictOf(<< <<Key("vendor_name"), At(cell_texts, 2)>>,
                           <<Key("address"), At(cell_texts, 3)>>,
                           <<Key("city"), At(cell_texts, 4)>>,
                           <<Key("state"), At(cell_texts, 5)>>,
                           <<Key("zip"), At(cell_texts, 6)>>,
                           <<Key("contact"), At(cell_texts, 7)>>,
                           <<Key("phone"), At(cell_texts, 8)>> >>))
        ELSE IF Len(cells) >= 3
        THEN DictSet(result, Key("vendor_name"),
                     IF Truthy(At(cell_texts, 2)) THEN At(cell_texts, 2)
                     ELSE At(cell_texts, 0))
        ELSE result

\* variant: a row is returned whether or not it has a vendor name
VendorRowKept_always(result) == TRUE

\* if result.get("vendor_name"): results.append(result)
VendorRowKept(result) ==
    Key("vendor_name") \in DOMAIN result /\ Truthy(result[Key("vendor_name")])

parse_vendor_search_results(html_text) ==
    LET rows == SelectSeq(DataRows(html_text), LAMBDA r : ~(Len(r.cells) < 3))
        kept == SelectSeq(rows, LAMBDA r : VendorRowKept(VendorResult(r.cells)))
    IN  [i \in 1..Len(kept) |-> VendorResult(kept[i].cells)]

\* an extractor raised IndexError while it built these records
Raised(results) ==
    \E i \in 1..Len(results) : \E k \in DOMAIN results[i] : results[i][k] = IndexError

-----------------------------------------------------------------------------
(* The detail parsers.  A detail page is a sequence of table rows, a row a *)
(* sequence of cells, a cell a text; a label such as "Bid Number:" is one  *)
(* symbol.  The patterns run over the markup of the page, in which every   *)
(* row and every cell stands between its tags.                             *)

\* the markup of a page
RECURSIVE RowMarkup(_)
RowMarkup(cells) ==
    IF cells = <<>> THEN <<>>
    ELSE <<"<td>">> \o Head(cells) \o <<"</td>">> \o RowMarkup(Tail(cells))

RECURSIVE Markup(_)
Markup(page) ==
    IF page = <<>> THEN <<>>
    ELSE <<"<tr>">> \o RowMarkup(Head(page)) \o <<"</tr>">> \o Markup(Tail(page))

\* the first position from i on that holds no white space (\s*)
RECURSIVE SkipWhite(_, _)
SkipWhite(t, i) == IF i <= Len(t) /\ IsWhite(t[i]) THEN SkipWhite(t, i + 1) ELSE i

\* the first position from i on that holds the symbol, or 0
FirstAt(t, i, c) ==
    LET m == {j \in i..Len(t) : t[j] = c}
    IN  IF m = {} THEN 0 ELSE Min(m)

\* </td>\s*<td[^>]*>(.*?)</td> tried at position i: the position of the
\* closing </td>, or 0 when the pattern does not match there
CellEnd(t, i) ==
    LET j == SkipWhite(t, i + 1)
    IN  IF i >= 1 /\ i <= Len(t) /\ t[i] = "</td>" /\ j <= Len(t) /\ t[j] = "<td>"
        THEN FirstAt(t, j + 1, "</td>")
        ELSE 0

\* what (.*?) captures there
CellText(t, i) == SubSeq(t, SkipWhite(t, i + 1) + 1, CellEnd(t, i) - 1)

\* Label:\s*</td>\s*<td[^>]*>(.*?)</td> tried at position i: the position
\* of the </td> after the label, or 0
LabelEnd(t, i, labels) ==
    IF t[i] \in labels /\ CellEnd(t, SkipWhite(t, i + 1)) # 0
    THEN SkipWhite(t, i + 1)
    ELSE 0

\* re.search of a labeled-field pattern: the captured text, or None
LabelSearch(t, labels) ==
    LET m == {i \in 1..Len(t) : LabelEnd(t, i, labels) # 0}
    IN  IF m = {} THEN None ELSE CellText(t, LabelEnd(t, Min(m), labels))

\* re.search of SBPP.*?Eligible\?.*?</td>\s*<td[^>]*>(.*?)</td>
SbppSearch(t) ==
    LET m == {i \in 1..Len(t) :
                 /\ t[i] = "SBPP"
                 /\ \E j \in (i + 1)..Len(t) :
                       t[j] = "Eligible?" /\ \E k \in (j + 1)..Len(t) : CellEnd(t, k) # 0}
    IN  IF m = {} THEN None
        ELSE LET j == FirstAt(t, Min(m) + 1, "Eligible?")
                 k == Min({x \in (j + 1)..Len(t) : CellEnd(t, x) # 0})
             IN  CellText(t, k)

\* the file number in downloadFile('<digits>') of a link
DownloadIdOf(c) ==
    CASE c = "<a onclick=downloadFile('7')>" -> <<"7">>
      [] c = "<a onclick=downloadFile('8')>" -> <<"8">>
      [] OTHER -> None

\* re.findall of downloadFile\('(\d+)'\).*?>(.*?)</a> from position i on
RECURSIVE Attachments(_, _)
Attachments(t, i) ==
    LET m == {j \in i..Len(t) : DownloadIdOf(t[j]) # None /\ FirstAt(t, j + 1, "</a>") # 0}
    IN  IF m = {} THEN <<>>
        ELSE LET j == Min(m)
                 e == FirstAt(t, j + 1, "</a>")
             IN  <<[id |-> DownloadIdOf(t[j]), name |-> strip_tags(SubSeq(t, j + 1, e - 1))]>>
                 \o Attachments(t, e + 1)

Digits == {"1", "2", "3"}

UnspscLabel == {"U N S P S C Code:"}

\* Item #\s*(\d+).*?<td[^>]*>(.*?)</td>.*?U N S P S C Code:\s*</td>\s*
\* <td[^>]*>(.*?)</td> tried at position i: the positions of the number,
\* of the description cell and of the label, or <<>> when it does not match
ItemAt(t, i) ==
    LET n == SkipWhite(t, i + 1)
        p == FirstAt(t, n + 1, "<td>")
        q == IF p = 0 THEN 0 ELSE FirstAt(t, p + 1, "</td>")
        m == IF q = 0 THEN {} ELSE {u \in (q + 1)..Len(t) : LabelEnd(t, u, UnspscLabel) # 0}
    IN  IF t[i] = "Item #" /\ n <= Len(t) /\ t[n] \in Digits /\ m # {}
        THEN <<n, p, q, Min(m)>>
        ELSE <<>>

\* re.findall of the item pattern from position i on
RECURSIVE Items(_, _)
Items(t, i) ==
    LET m == {j \in i..Len(t) : ItemAt(t, j) # <<>>}
    IN  IF m = {} THEN <<>>
        ELSE LET at == ItemAt(t, Min(m))
                 k == LabelEnd(t, at[4], UnspscLabel)
             IN  <<[item_number |-> <<t[at[1]]>>,
                    description |-> strip_tags(SubSeq(t, at[2] + 1, at[3] - 1)),
                    unspsc_code |-> strip_tags(CellText(t, k))]>>
                 \o Items(t, CellEnd(t, k) + 1)

\* re.findall of the commodity-code pattern from position i on
RECURSIVE UnspscCodes(_, _)
UnspscCodes(t, i) ==
    LET m == {j \in i..Len(t) : LabelEnd(t, j, UnspscLabel) # 0}
    IN  IF m = {} THEN <<>>
        ELSE LET k == LabelEnd(t, Min(m), UnspscLabel)
             IN  <<strip_tags(CellText(t, k))>> \o UnspscCodes(t, CellEnd(t, k) + 1)

\* field_patterns of parse_bid_detail (without sbpp_eligible), and the
\* patterns of the bulletin and the two addresses
BidLabel ==
    [bid_number |-> {"Bid Number:"}, description |-> {"Description:"},
     bid_opening_date |-> {"Bid Opening Date:"}, purchaser |-> {"Purchaser:"},
     organization |-> {"Organization:"}, department |-> {"Department:"},
     location |-> {"Location:"}, fiscal_year |-> {"Fiscal Year:"},
     type_code |-> {"Type Code:"}, alternate_id |-> {"Alternate Id:"},
     required_date |-> {"Required Date:"}, available_date |-> {"Available Date:"},
     info_contact |-> {"Info Contact:"}, bid_type |-> {"Bid Type:"},
     purchase_method |-> {"Purchase Method:"},
     allow_electronic_quote |-> {"Allow Electronic Quote:"},
     informal_bid_flag |-> {"Informal Bid Flag:"},
     bulletin |-> {"Bulletin Desc:"}, ship_to_address |-> {"Ship-to Address:"},
     bill_to_address |-> {"Bill-to Address:"}]

\* field_patterns of parse_po_detail, and the vendor pattern Vendor:?
PoLabel ==
    [po_number |-> {"Purchase Order Number:"}, release_number |-> {"Release Number:"},
     short_description |-> {"Short Description:"}, status |-> {"Status:"},
     purchaser |-> {"Purchaser:"}, receipt_method |-> {"Receipt Method:"},
     fiscal_year |-> {"Fiscal Year:"}, po_type |-> {"PO Type:"},
     organization |-> {"Organization:"}, department |-> {"Department:"},
     location |-> {"Location:"}, type_code |-> {"Type Code:"},
     alternate_id |-> {"Alternate Id:"}, entered_date |-> {"Entered Date:"},
     days_aro |-> {"Days ARO:"}, release_type |-> {"Release Type:"},
     contact_instructions |-> {"Contact Instructions:"}, actual_cost |-> {"Actual Cost:"},
     print_format |-> {"Print Format:"},
     master_blanket_begin_date |-> {"Master Blanket Begin Date:"},
     master_blanket_end_date |-> {"Master Blanket End Date:"},
     cooperative_purchasing |-> {"Cooperative Purchasing Allowed:"},
     vendor |-> {"Vendor:", "Vendor"}]

\* for field, pattern in field_patterns.items(): if match: detail[field] = ...
LabeledFields(t, label) ==
    LET matched == {f \in DOMAIN label : LabelSearch(t, label[f]) # None}
    IN  [k \in {Key(f) : f \in matched} |-> strip_tags(LabelSearch(t, label[k[1]]))]

\* if value: detail[key] = value
SetIf(d, name, value) == IF value # <<>> THEN DictSet(d, Key(name), value) ELSE d

parse_bid_detail(html_text) ==
    LET t == Markup(html_text)
        fields == LabeledFields(t, BidLabel)
        sbpp == SbppSearch(t)
        d1 == IF sbpp # None THEN DictSet(fields, Key("sbpp_eligible"), strip_tags(sbpp))
              ELSE fields
    IN  SetIf(SetIf(d1, "attachments", Attachments(t, 1)), "items", Items(t, 1))

parse_po_detail(html_text) ==
    LET t == Markup(html_text)
        fields == LabeledFields(t, PoLabel)
    IN  SetIf(SetIf(fields, "unspsc_codes", UnspscCodes(t, 1)),
              "attachments", Attachments(t, 1))

-----------------------------------------------------------------------------
(* The extractors on their own: an extractor is applied to a fragment of   *)
(* at most MaxRows rows of at most MaxCells cells                          *)

MaxRows == 2

MaxCells == 13

\* the i-th cell of a row (counted from 0) names its position; it comes
\* with markup, white space and an entity around it
PlainCell(i) == <<"<b>", ToString(i), " ", "\n", "&amp;", "</b>">>

\* a cell holding a link to the vendor's page
LinkCell(i, a) == <<a, ToString(i), "</a>">>

\* a cell that holds no text once stripped
BlankCell == <<" ", "&nbsp;", "<b>", "</b>">>

RowKinds == {"text", "links", "noname", "blank"}

\* the cells of a row of n cells:
\*   text    every cell holds text, no link
\*   links   as text, with a vendor link in the first cell and another in
\*           the second
\*   noname  as text, with a vendor link in the first cell and a blank
\*           third cell
\*   blank   every cell is blank
RowCells(n, kind) ==
    [j \in 1..n |->
        CASE kind = "blank" -> BlankCell
          [] kind = "links" /\ j = 1 -> LinkCell(0, "<a href='?vendorId=V1&x=1'>")
          [] kind = "links" /\ j = 2 -> LinkCell(1, "<a href='?VENDORID=V2'>")
          [] kind = "noname" /\ j = 1 -> LinkCell(0, "<a href='?VENDORID=V2'>")
          [] kind = "noname" /\ j = 3 -> BlankCell
          [] OTHER -> PlainCell(j - 1)]

\* a header row: twelve cells, no data-ri attribute
HeaderRow == Row(FALSE, [j \in 1..12 |-> <<"<b>", "Column", "</b>">>])

RowShapes ==
    {Row(TRUE, RowCells(n, kind)) : n \in 0..MaxCells, kind \in RowKinds} \cup {HeaderRow}

\* the rows before the last of a fragment: the header, a full row, a short
\* row, a vendor row without a name
LeadRows ==
    {HeaderRow, Row(TRUE, RowCells(12, "text")), Row(TRUE, RowCells(3, "text")),
     Row(TRUE, RowCells(9, "noname"))}

ListExtractors ==
    {"parse_bid_search_results", "parse_blanket_search_results",
     "parse_vendor_search_results"}

MaxPageBlocks == 3

\* the pieces a detail page is made of: a row with a label and its value,
\* a label alone in its row, a line item with or without its commodity
\* code, an attachment link, a row that holds no label
PageBlocks ==
    {<< <<<<"Bid Number:">>, <<"BD-25-1020">>>> >>,
     << <<<<"Bid Number:">>, <<" ", "&nbsp;">>>> >>,
     << <<<<"Description:">>, <<"<b>", "SBPP", "</b>", "goods">>>> >>,
     << <<<<"Location:">>, <<"Boston">>>> >>,
     << <<<<"SBPP", "Eligible?">>, <<"Yes">>>> >>,
     << <<<<"SBPP", "Eligible?">>>> >>,
     << <<<<"Item #", "1">>, <<"pens">>>>, <<<<"U N S P S C Code:">>, <<"44-12">>>> >>,
     << <<<<"Item #", " ", "2">>, <<"paper">>>> >>,
     << <<<<"<a onclick=downloadFile('7')>", "spec.pdf", "</a>">>>> >>,
     << <<<<"Purchase Order Number:">>, <<"PO-25-1080">>>> >>,
     << <<<<"Vendor:">>, <<"ACME">>>> >>,
     << <<<<"PO Type:">>, <<"Preferred", " ", "Vendor">>>> >>,
     << <<<<"Notes">>, <<"none">>>> >>}

RECURSIVE PageOf(_)
PageOf(blocks) == IF blocks = <<>> THEN <<>> ELSE Head(blocks) \o PageOf(Tail(blocks))

DetailParsers == {"parse_bid_detail", "parse_po_detail"}

InitParse ==
    /\ pc = "parse"
    /\ \/ /\ \E f \in ListExtractors : op = f
          /\ \E n \in 0..MaxRows :
                \E lead \in [1..(n - 1) -> LeadRows] : \E last \in RowShapes :
                    rin = IF n = 0 THEN <<>> ELSE Append(lead, last)
       \/ /\ \E f \in DetailParsers : op = f
          /\ \E n \in 0..MaxPageBlocks : \E blocks \in [1..n -> PageBlocks] :
                rin = PageOf(blocks)
    /\ rout = None
    /\ ClientIdle

\* the extractor returns its records, or IndexError leaves it
Extracted(results) ==
    IF Raised(results)
    THEN /\ exc' = [t |-> "IndexError", code |-> 0, attempt |-> 0, fn |-> op]
         /\ pc' = "raised"
         /\ UNCHANGED rout
    ELSE /\ rout' = results
         /\ pc' = "parsed"
         /\ UNCHANGED exc

bid_search_results ==
    /\ pc = "parse"
    /\ op = "parse_bid_search_results"
    /\ Extracted(parse_bid_search_results(rin))
    /\ ClientFrame

blanket_search_results ==
    /\ pc = "parse"
    /\ op = "parse_blanket_search_results"
    /\ Extracted(parse_blanket_search_results(rin))
    /\ ClientFrame

vendor_search_results ==
    /\ pc = "parse"
    /\ op = "parse_vendor_search_results"
    /\ Extracted(parse_vendor_search_results(rin))
    /\ ClientFrame

bid_detail ==
    /\ pc = "parse"
    /\ op = "parse_bid_detail"
    /\ rout' = parse_bid_detail(rin)
    /\ pc' = "parsed"
    /\ UNCHANGED exc
    /\ ClientFrame

po_detail ==
    /\ pc = "parse"
    /\ op = "parse_po_detail"
    /\ rout' = parse_po_detail(rin)
    /\ pc' = "parsed"
    /\ UNCHANGED exc
    /\ ClientFrame

NextParse ==
    \/ bid_search_results
    \/ blanket_search_results
    \/ vendor_search_results
    \/ bid_detail
    \/ po_detail

SpecParse == InitParse /\ [][NextParse]_vars

\* the rows of the fragment that carry the data-row marker and at least
\* min cells, in document order
ValidRows(min) == SelectSeq(rin, LAMBDA r : r.data_ri /\ Len(r.cells) >= min)

BidRichKeys ==
    {Key("bid_number"), Key("organization"), Key("buyer"), Key("description"),
     Key("open_date"), Key("status")}

BidDegradedKeys ==
    {Key("bid_number"), Key("description"), Key("organization"), Key("open_date")}

ContractRichKeys ==
    {Key("contract_number"), Key("bid_number"), Key("description"), Key("vendor"),
     Key("type"), Key("amount"), Key("organization"), Key("status"),
     Key("start_date"), Key("end_date")}

ContractDegradedKeys == {Key("contract_number"), Key("description")}

\* the text of a cell as a reader sees it: no tag, no entity, no white
\* space at either end or twice in a row
IsStripped(t) ==
    /\ \A i \in 1..Len(t) : t[i] \notin Tags \cup {"&amp;", "&nbsp;", "NBSP", "\n"}
    /\ t # <<>> => t[1] # " " /\ t[Len(t)] # " "
    /\ \A i \in 1..(Len(t) - 1) : ~(t[i] = " " /\ t[i + 1] = " ")

\* the record's value is the stripped text of a cell of the row
FromCellOf(v, row) ==
    /\ IsStripped(v)
    /\ \E j \in 1..Len(row.cells) :
          SelectSeq(v, LAMBDA c : c \notin {" ", "&"})
            = SelectSeq(row.cells[j], LAMBDA c : c \notin Tags \cup {" ", "\n", "&amp;", "&nbsp;"})

\* the records of the valid rows have the keys the row's cell count asks for
ShapedByCount(min, rich, degraded) ==
    LET valid == ValidRows(min)
    IN  /\ Len(rout) = Len(valid)
        /\ \A k \in 1..Len(valid) :
              /\ DOMAIN rout[k] = IF Len(valid[k].cells) >= 12 THEN rich ELSE degraded
              /\ \A key \in DOMAIN rout[k] : FromCellOf(rout[k][key], valid[k])

(* C14: the record a bid or contract row yields depends on the row's cell  *)
(* count alone.  A row of 12 cells or more yields a record with every      *)
(* rich-shape field (bid: bid_number, organization, buyer, description,    *)
(* open_date, status; contract: the ten contract fields), a row of fewer   *)
(* cells but at least the minimum (bid 6, contract 5) a record with the    *)
(* degraded-shape fields (bid: bid_number, description, organization,      *)
(* open_date; contract: contract_number, description) and no other key,    *)
(* a row below the minimum no record; each field holds the text of a cell  *)
(* of its row.                                                             *)
C14_ShapeByCellCount ==
    /\ (pc = "parsed" /\ op = "parse_bid_search_results")
          => ShapedByCount(6, BidRichKeys, BidDegradedKeys)
    /\ (pc = "parsed" /\ op = "parse_blanket_search_results")
          => ShapedByCount(5, ContractRichKeys, ContractDegradedKeys)

\* a contract fragment with a 12-cell row and a 5-cell row, all blank
C14_Witness ==
    /\ pc = "parsed"
    /\ op = "parse_blanket_search_results"
    /\ Len(rin) = 2
    /\ Len(rin[1].cells) = 12 /\ rin[1].data_ri
    /\ Len(rin[2].cells) = 5 /\ rin[2].data_ri
    /\ rin[2].cells[5] = BlankCell
    /\ DOMAIN rout[1] = ContractRichKeys
    /\ DOMAIN rout[2] = ContractDegradedKeys
    /\ rout[2][Key("description")] = <<>>

\* the words of a cell: its symbols that are neither markup nor white
\* space, entities decoded
CellWords(cell) ==
    Unescape(SelectSeq(cell, LAMBDA c : c \notin Tags \cup {" ", "\n", "&nbsp;"}))

\* v is the text of the cell as a reader sees it
StrippedTextOf(v, cell) ==
    /\ IsStripped(v)
    /\ SelectSeq(v, LAMBDA c : c # " ") = CellWords(cell)

\* the vendorId parameters of the links of a row, in document order
RowVendorIds(row) ==
    LET RECURSIVE Ids(_)
        Ids(cs) ==
            IF cs = <<>> THEN <<>>
            ELSE SelectSeq([i \in 1..Len(Head(cs)) |-> VendorIdOf(Head(cs)[i])],
                           LAMBDA v : v # None) \o Ids(Tail(cs))
    IN  Ids(row.cells)

\* the cell a vendor row takes its name from: the third cell; in a row of
\* fewer than 9 cells the first cell when the third holds no text
NameCell(row) ==
    IF Len(row.cells) >= 9 \/ CellWords(row.cells[3]) # <<>>
    THEN row.cells[3] ELSE row.cells[1]

\* the vendor rows that come with a name
NamedRows ==
    SelectSeq(rin, LAMBDA r : /\ r.data_ri
                              /\ Len(r.cells) >= 3
                              /\ CellWords(NameCell(r)) # <<>>)

KnownWords ==
    UNION {BidLabel[f] : f \in DOMAIN BidLabel} \cup UNION {PoLabel[f] : f \in DOMAIN PoLabel}
    \cup UnspscLabel \cup {"SBPP", "Eligible?", "Item #"}
    \cup {c \in Tags : DownloadIdOf(c) # None}

\* a page on which none of them occurs
NothingToFind(page) ==
    \A r \in 1..Len(page) : \A c \in 1..Len(page[r]) : \A i \in 1..Len(page[r][c]) :
        page[r][c][i] \notin KnownWords

\* the rows of the fragment that count for the extractor that ran
RowsThatCount ==
    CASE op = "parse_bid_search_results" -> ValidRows(6)
      [] op = "parse_blanket_search_results" -> ValidRows(5)
      [] op = "parse_vendor_search_results" -> NamedRows

\* what the extractor that ran makes of a fragment
Extractor(html_text) ==
    CASE op = "parse_bid_search_results" -> parse_bid_search_results(html_text)
      [] op = "parse_blanket_search_results" -> parse_blanket_search_results(html_text)
      [] op = "parse_vendor_search_results" -> parse_vendor_search_results(html_text)

(* C16: no extractor raises; a list extractor returns one record for each  *)
(* row that counts, in document order, each record being the one its row   *)
(* yields on its own whatever rows are dropped around it, and the empty    *)
(* sequence when no row counts, as for the empty fragment; a detail parser *)
(* returns the empty mapping for a page that holds nothing it looks for,   *)
(* as for the empty page.                                                  *)
C16_ParseMissesNeverFail ==
    /\ pc # "raised"
    /\ (pc = "parsed" /\ op \in ListExtractors) =>
          /\ Len(rout) = Len(RowsThatCount)
          /\ \A k \in 1..Len(rout) : <<rout[k]>> = Extractor(<<RowsThatCount[k]>>)
          /\ RowsThatCount = <<>> => rout = <<>>
          /\ rin = <<>> => rout = <<>>
    /\ (pc = "parsed" /\ op \in DetailParsers) =>
          /\ NothingToFind(rin) => rout = EmptyDict
          /\ rin = <<>> => rout = EmptyDict

\* a row of three cells before a row of six: the bid extractor returns the
\* record of the second row alone
C16_Witness ==
    /\ pc = "parsed"
    /\ op = "parse_bid_search_results"
    /\ Len(rin) = 2
    /\ Len(rin[1].cells) = 3 /\ rin[1].data_ri
    /\ Len(rin[2].cells) = 6 /\ rin[2].data_ri
    /\ Len(rout) = 1
    /\ rout[1][Key("bid_number")] = <<"0", " ", "&">>

\* the labels and the parser of the detail parser that ran
LabelTable == IF op = "parse_bid_detail" THEN BidLabel ELSE PoLabel

Parser(page) == IF op = "parse_bid_detail" THEN parse_bid_detail(page) ELSE parse_po_detail(page)

\* the fields a detail record is made of, without the lists
FieldKeys == {Key(f) : f \in DOMAIN LabelTable} \cup {Key("sbpp_eligible")}

\* cell c of row r ends with the label of field f and has a value cell
\* after it in its row
LabeledAt(page, f, r, c) ==
    /\ c + 1 <= Len(page[r])
    /\ page[r][c] # <<>>
    /\ page[r][c][Len(page[r][c])] \in LabelTable[f]

\* the page without cells c and c + 1 of row r
WithoutField(page, r, c) ==
    [page EXCEPT ![r] = SubSeq(@, 1, c - 1) \o SubSeq(@, c + 2, Len(@))]

\* two records agree on a key: the same value, or absent from both
SameAt(d, e, k) ==
    /\ k \in DOMAIN d <=> k \in DOMAIN e
    /\ k \in DOMAIN d => d[k] = e[k]

(* C17: for every detail page and every labeled field F on it, the page    *)
(* without F's label cell and value cell gives every other field of        *)
(* parse_bid_detail and parse_po_detail, sbpp_eligible and vendor          *)
(* included, the value it had, or leaves it as absent as it was.           *)
C17_FieldsIndependent ==
    (pc = "parsed" /\ op \in DetailParsers) =>
        \A f \in DOMAIN LabelTable : \A r \in 1..Len(rin) : \A c \in 1..Len(rin[r]) :
            LabeledAt(rin, f, r, c) =>
                \A g \in FieldKeys \ {Key(f)} :
                    SameAt(rout, Parser(WithoutField(rin, r, c)), g)

-----------------------------------------------------------------------------
(* _extract_tokens on its own: pages of up to MaxInputs hidden fields, each *)
(* a view-state field, a CSRF field or another field, with or without a    *)
(* value, written in either attribute order                                *)

MaxInputs == 2

InputNames == {K_VIEWSTATE, K_CSRF, <<"q">>}

InputValues == {<<>>, VS1, CSRF1}

InputKinds == {Hidden(n, v, o) : n \in InputNames, v \in InputValues, o \in {"nv", "vn"}}

InitTokens ==
    /\ pc = "extract"
    /\ op = "_extract_tokens"
    /\ \E n \in 0..MaxInputs : \E fs \in [1..n -> InputKinds] :
          rin = [inputs |-> fs, searchNew |-> None, selects |-> <<>>]
    /\ rout = None
    /\ ClientIdle

extract ==
    /\ pc = "extract"
    /\ rout' = _extract_tokens(rin)
    /\ pc' = "extracted"
    /\ UNCHANGED exc
    /\ ClientFrame

NextTokens == extract

SpecTokens == InitTokens /\ [][NextTokens]_vars

\* the values the page's fields of the name carry
ValuesOf(page, key) ==
    {page.inputs[i].value : i \in {j \in 1..Len(page.inputs) :
                                      /\ page.inputs[j].name = key
                                      /\ page.inputs[j].value # <<>>}}

\* the page with the attributes of its i-th field written in the other order
Flipped(page, i) ==
    [page EXCEPT !.inputs[i].order = IF @ = "nv" THEN "vn" ELSE "nv"]

\* the page without the fields of the name
RECURSIVE Dropped(_, _)
Dropped(inputs, key) ==
    IF inputs = <<>> THEN <<>>
    ELSE IF Head(inputs).name = key THEN Dropped(Tail(inputs), key)
    ELSE <<Head(inputs)>> \o Dropped(Tail(inputs), key)

WithoutCsrf(page) == [page EXCEPT !.inputs = Dropped(@, K_CSRF)]

-----------------------------------------------------------------------------
(* get_bid_detail and get_po_detail: one GET through the transport, the    *)
(* detail parser, the document number and the portal address               *)

PO_DETAIL_URL == <<"poSummary.sda">>

K_RELEASE == <<"releaseNbr">>

MaxDetailBlocks == 2

\* the document ids callers ask for, and the release numbers
DocIds == {<<"BD-25-1020">>, <<"BD", " ", "9">>}

Releases == {0, 1}

\* the pieces a fetched detail page is made of: a bid number, a blank bid
\* number, a location, an item with its code, an attachment, an order
\* number, a vendor
DetailBlocks ==
    {b \in PageBlocks :
        b[1][1] \in {<<"Bid Number:">>, <<"Location:">>, <<"Item #", "1">>,
                     <<"<a onclick=downloadFile('7')>", "spec.pdf", "</a>">>,
                     <<"Purchase Order Number:">>, <<"Vendor:">>}}

\* the detail pages the server can answer with
DetailBodies ==
    UNION {{PageOf(blocks) : blocks \in [1..n -> DetailBlocks]} : n \in 0..MaxDetailBlocks}

\* what can go wrong with an exchange of the detail GET
DetailFailures == {HTTPError(404), HTTPError(503), URLError}

\* urllib.parse.quote: a character outside the unreserved ones is written
\* as its percent escape
Quote(s) == [i \in 1..Len(s) |-> IF s[i] = " " THEN "%20" ELSE s[i]]

\* str(release)
Str(n) == <<ToString(n)>>

\* html_text = client.get(BID_DETAIL_URL, params) begins
get_bid_detail(doc_id) ==
    /\ pc = "idle"
    /\ op' = "get_bid_detail"
    /\ form_fields' = DictOf(<< <<K_DOCID, doc_id>> >>)
    /\ StartCall("_make_request", "GET", BID_DETAIL_URL,
                 DictOf(<< <<K_DOCID, doc_id>>,
                           <<<<"external">>, <<"true">> >>,
                           <<<<"parentUrl">>, <<"close">> >> >>), "bid_detail")
    /\ UNCHANGED <<page_url, form_id, search_button_id, results_form_id, fields0,
                   page_html, tokens, reset_button_id, reset_response, resp, ret, exc,
                   rin, rout, inst, cookie_jar, issued, activity>>

\* html_text = client.get(PO_DETAIL_URL, params) begins
get_po_detail(doc_id, release) ==
    /\ pc = "idle"
    /\ op' = "get_po_detail"
    /\ form_fields' = DictOf(<< <<K_DOCID, doc_id>>, <<K_RELEASE, Str(release)>> >>)
    /\ StartCall("_make_request", "GET", PO_DETAIL_URL,
                 DictOf(<< <<K_DOCID, doc_id>>,
                           <<K_RELEASE, Str(release)>>,
                           <<<<"external">>, <<"true">> >>,
                           <<<<"parentUrl">>, <<"close">> >> >>), "po_detail")
    /\ UNCHANGED <<page_url, form_id, search_button_id, results_form_id, fields0,
                   page_html, tokens, reset_button_id, reset_response, resp, ret, exc,
                   rin, rout, inst, cookie_jar, issued, activity>>

\* detail.get(name) is falsy: the key is missing or its value is empty
Falsy(detail, name) == Key(name) \notin DOMAIN detail \/ detail[Key(name)] = <<>>

DetailFrame ==
    UNCHANGED <<op, page_url, form_id, search_button_id, results_form_id, form_fields,
                fields0, tokens, reset_button_id, reset_response, call, resp, attempt,
                tlog, sent, exc, rin, rout, inst, cookie_jar, issued, activity>>

\* variant: the record is returned as the parser made it
get_bid_detail_page_as_parsed ==
    /\ pc = "bid_detail"
    /\ page_html' = resp
    /\ ret' = parse_bid_detail(resp)
    /\ pc' = "done"
    /\ DetailFrame

\* the page arrived: parse it, fill in the bid number, add the portal address
get_bid_detail_page ==
    /\ pc = "bid_detail"
    /\ page_html' = resp
    /\ LET doc_id == form_fields[K_DOCID]
           detail == parse_bid_detail(resp)
           d1 == IF Falsy(detail, "bid_number")
                 THEN DictSet(detail, Key("bid_number"), doc_id) ELSE detail
       IN  ret' = DictSet(d1, Key("portal_url"),
                          BID_DETAIL_URL \o <<"?docId=">> \o Quote(doc_id)
                              \o <<"&external=true&parentUrl=close">>)
    /\ pc' = "done"
    /\ DetailFrame

\* the page arrived: parse it, fill in the order number, add the portal address
get_po_detail_page ==
    /\ pc = "po_detail"
    /\ page_html' = resp
    /\ LET doc_id == form_fields[K_DOCID]
           detail == parse_po_detail(resp)
           d1 == IF Falsy(detail, "po_number")
                 THEN DictSet(detail, Key("po_number"), doc_id) ELSE detail
       IN  ret' = DictSet(d1, Key("portal_url"),
                          PO_DETAIL_URL \o <<"?docId=">> \o Quote(doc_id)
                              \o <<"&releaseNbr=">> \o form_fields[K_RELEASE]
                              \o <<"&external=true&parentUrl=close">>)
    /\ pc' = "done"
    /\ DetailFrame

InitDetail == Init

NextDetail ==
    \/ \E d \in DocIds : get_bid_detail(d)
    \/ \E d \in DocIds : \E r \in Releases : get_po_detail(d, r)
    \/ get_bid_detail_page
    \/ get_po_detail_page
    \/ \E b \in DetailBodies : _make_request(Ok(b))
    \/ \E e \in DetailFailures : _make_request(e)

SpecDetail == InitDetail /\ [][NextDetail]_vars

\* a detail getter returned its record
DetailReturned == pc = "done" /\ op \in {"get_bid_detail", "get_po_detail"}

\* the labels of the getter that ran, and the field holding the document number
DetailLabels == IF op = "get_bid_detail" THEN BidLabel ELSE PoLabel

IdField == IF op = "get_bid_detail" THEN "bid_number" ELSE "po_number"

\* some cell of the page ends with one of the labels and has a value cell
\* after it in its row
Labelled(page, labels) ==
    \E r \in 1..Len(page) : \E c \in 1..Len(page[r]) :
        /\ c + 1 <= Len(page[r])
        /\ page[r][c] # <<>>
        /\ page[r][c][Len(page[r][c])] \in labels

\* the symbol occurs in some cell of the page
Occurs(page, sym) ==
    \E r \in 1..Len(page) : \E c \in 1..Len(page[r]) : \E i \in 1..Len(page[r][c]) :
        page[r][c][i] = sym

-----------------------------------------------------------------------------
(* The line items of parse_bid_detail *)

\* the rows of the page that begin an item block, and the k-th of them
ItemRows(page) ==
    {r \in 1..Len(page) : /\ page[r] # <<>>
                          /\ page[r][1] # <<>>
                          /\ page[r][1][1] = "Item #"}

NthItemRow(page, k) ==
    CHOOSE r \in ItemRows(page) : Cardinality({x \in ItemRows(page) : x < r}) = k - 1

\* the commodity-code rows of the k-th item block: after its first row and
\* before the next block
CodeRows(page, k) ==
    {r \in 1..Len(page) :
        /\ r > NthItemRow(page, k)
        /\ k < Cardinality(ItemRows(page)) => r < NthItemRow(page, k + 1)
        /\ Len(page[r]) >= 2
        /\ page[r][1] = <<"U N S P S C Code:">>}

\* the line items of a record
ItemsOf(d) == IF Key("items") \in DOMAIN d THEN d[Key("items")] ELSE <<>>

(* C20: parse_bid_detail gives one line item for every "Item #<n>" block   *)
(* of the page, in document order, with the block's number, and with the   *)
(* commodity code of that same block when the block has one, also when     *)
(* another block has none.                                                 *)
C20_ItemPerBlock ==
    (pc = "parsed" /\ op = "parse_bid_detail") =>
        /\ Len(ItemsOf(rout)) = Cardinality(ItemRows(rin))
        /\ \A k \in 1..Cardinality(ItemRows(rin)) :
              LET r == NthItemRow(rin, k)
              IN  /\ ItemsOf(rout)[k].item_number = <<rin[r][1][Len(rin[r][1])]>>
                  /\ \A c \in CodeRows(rin, k) :
                        c = Min(CodeRows(rin, k)) =>
                            ItemsOf(rout)[k].unspsc_code = strip_tags(rin[c][2])

-----------------------------------------------------------------------------
(* Errors the transport does not retry *)

\* an HTTP error whose status is not one of the retried ones
Fatal(o) == o.t = "HTTPError" /\ o.code \notin {429, 500, 502, 503, 504}

(* C21: an attempt of a transport call that fails with an HTTP status      *)
(* outside {429, 500, 502, 503, 504} is the last event of the call: no     *)
(* sleep and no attempt follows it, whatever the attempts before it did,   *)
(* and the call is raised with that status, on that attempt; a transport   *)
(* call raised with such a status got it on its last attempt, and a call   *)
(* raised after three failed attempts whose last failure was a retried     *)
(* status or a connection failure carries that failure, never a status     *)
(* outside the set.                                                        *)
C21_FatalStatusRaisedAtOnce ==
    /\ \A i \in 1..Len(tlog) :
          (tlog[i].ev = "attempt" /\ Fatal(tlog[i].out)) =>
              /\ i = Len(tlog)
              /\ pc = "raised"
              /\ exc.t = "HTTPError"
              /\ exc.code = tlog[i].out.code
              /\ exc.attempt = tlog[i].n
              /\ exc.fn = call.fn
    /\ (pc = "raised" /\ exc.fn \in TransportFns) =>
          /\ Fatal(exc) => (/\ tlog[Len(tlog)].ev = "attempt"
                            /\ tlog[Len(tlog)].out.t = "HTTPError"
                            /\ tlog[Len(tlog)].out.code = exc.code)
          /\ (Len(Attempts) = 3 /\ Retryable(Attempts[3].out)) => ~Fatal(exc)

C21_Witness ==
    /\ pc = "raised"
    /\ call.fn = "_ajax_post"
    /\ Len(Attempts) = 2
    /\ Attempts[1].out.t = "HTTPError" /\ Attempts[1].out.code = 503
    /\ Attempts[2].out.t = "HTTPError" /\ Attempts[2].out.code = 403
    /\ Len(Sleeps) = 1
    /\ exc.t = "HTTPError" /\ exc.code = 403 /\ exc.attempt = 1

-----------------------------------------------------------------------------
(* ajax_search run to its end, with its HTTP attempts and backoff sleeps   *)
(* counted. Every exchange returns or fails, and the client is              *)
(* single-threaded and synchronous: a step that can be taken is taken.     *)

InitRun ==
    /\ pc = "idle"
    /\ op = "none"
    /\ page_url = None
    /\ form_id = None
    /\ search_button_id = None
    /\ results_form_id = None
    /\ form_fields = EmptyDict
    /\ fields0 = EmptyDict
    /\ page_html = None
    /\ tokens = EmptyDict
    /\ reset_button_id = None
    /\ reset_response = None
    /\ call = None
    /\ resp = None
    /\ attempt = 0
    /\ tlog = <<>>
    /\ sent = <<>>
    /\ ret = None
    /\ exc = None
    /\ rin = None
    /\ rout = None
    /\ inst = [c \in Clients |-> NewInstance]
    /\ cookie_jar = [c \in Clients |-> {}]
    /\ issued = [c \in Clients |-> {}]
    /\ activity = Counted

\* the failures of the runs that keep the steps: a status that is raised at
\* once, a status that is retried, a failed connection, a broken read
RunFailures == {HTTPError(403), HTTPError(503), URLError, ReadError}

NextRun ==
    \/ \E r \in SearchRequests : ajax_search(r.url, r.form, r.button, r.fields, r.results)
    \/ ajax_search_page
    \/ ajax_search_reset
    \/ ajax_search_search
    \/ \E b \in Bodies("_make_request") : _make_request(Ok(b))
    \/ \E e \in RunFailures : _make_request(e)
    \/ \E b \in Bodies("_ajax_post") : _ajax_post(Ok(b))
    \/ \E e \in RunFailures : _ajax_post(e)

\* where the run has a step to take: the call can be made, the operation's
\* own code runs on, an exchange of the retry loop returns or fails
CanStep ==
    \/ pc \in {"idle", "page", "reset", "search"}
    \/ pc \in {"_make_request", "_ajax_post"} /\ attempt < MAX_RETRIES

RunPoints ==
    {"idle", "_make_request", "_ajax_post", "page", "reset", "search", "done", "raised"}

\* the interpreter runs the next statement and every HTTP exchange returns
\* or fails: a step the run has to take is taken. Every step of NextRun
\* moves the control point or the loop index, so the steps of the run are
\* the steps that move them
Moves == CanStep /\ pc' \in RunPoints /\ attempt' \in 0..MAX_RETRIES

SpecRun == InitRun /\ [][NextRun]_vars /\ WF_<<pc, attempt>>(Moves)

\* the call ended
Ended == pc \in {"done", "raised"}

(* C22: every ajax_search call ends, returned or raised; at every moment   *)
(* of the call it has issued at most three requests (the page GET first,   *)
(* then at most one reset POST, then at most one search POST), made at     *)
(* most 9 HTTP attempts and slept at most 6 times; a retry loop is never   *)
(* left with its rounds used up, and it is left only with the body of a    *)
(* successful attempt or with a raised error.                              *)
C22_SearchEndsWithinBudget ==
    /\ (op = "ajax_search") ~> Ended
    /\ [](op = "ajax_search" =>
            /\ Len(sent) <= 3
            /\ sent[1].method = "GET" /\ sent[1].phase = "page"
            /\ \A i \in 2..Len(sent) : sent[i].method = "POST"
            /\ Count("reset") <= 1 /\ Count("search") <= 1
            /\ AttemptsOf(activity) <= 9
            /\ SleepsOf(activity) <= 6
            /\ pc \in TransportFns => attempt < MAX_RETRIES
            /\ pc = "done" => ret = _parse_ajax_response(resp)
            /\ pc = "raised" => exc.t \in {"HTTPError", "URLError", "ReadError",
                                           "RuntimeError"})
    /\ [][(pc \in TransportFns /\ pc' \notin TransportFns) =>
            \/ pc' = "raised" /\ exc'.fn = pc
            \/ /\ pc' = call.cont
               /\ tlog'[Len(tlog')].out.t = "ok"
               /\ resp' = tlog'[Len(tlog')].out.body]_vars

C22_Witness ==
    /\ op = "ajax_search"
    /\ pc = "done"
    /\ Len(sent) = 3
    /\ AttemptsOf(activity) = 9
    /\ SleepsOf(activity) = 6

-----------------------------------------------------------------------------
(* The CSRF token of a search *)

\* the hidden _csrf inputs of the page the search fetched
PageCsrf == {i \in 1..Len(page_html.inputs) : page_html.inputs[i].name = K_CSRF}

\* the ids a partial response updates
UpdatedIds(response) == {response[i].id : i \in 1..Len(response)}

(* C23: the reset POST and the search POST of a search carry a CSRF        *)
(* parameter exactly when the fetched page has a hidden _csrf input, and   *)
(* then with that input's value; after the reset response the held tokens  *)
(* are the page's tokens except for the view-state, whatever the response  *)
(* updates.                                                                *)
C23_CsrfFromPageOnly ==
    op = "ajax_search" =>
        /\ \A i \in 1..Len(sent) :
              sent[i].phase \in {"reset", "search"} =>
                  /\ K_CSRF \in DOMAIN sent[i].data <=> PageCsrf # {}
                  /\ \A j \in PageCsrf :
                        sent[i].data[K_CSRF] = page_html.inputs[j].value
        /\ Count("search") = 1 =>
              /\ DOMAIN tokens = DOMAIN _extract_tokens(page_html)
              /\ \A k \in DOMAIN tokens \ {K_VIEWSTATE} :
                    tokens[k] = _extract_tokens(page_html)[k]

C23_Witness ==
    /\ op = "ajax_search"
    /\ Count("reset") = 1
    /\ Count("search") = 1
    /\ PageCsrf # {}
    /\ K_CSRF \in UpdatedIds(reset_response)
    /\ tokens[K_VIEWSTATE] = VS2
    /\ \A i \in 2..3 : sent[i].data[K_CSRF] = CSRF1

-----------------------------------------------------------------------------
(* The caller's field mapping *)

\* the parameters ajax_search itself puts into a POST
ProtocolKeys ==
    {K_AJAX, K_SOURCE, K_EXECUTE, K_RENDER, K_VIEWSTATE, K_CSRF, form_id,
     search_button_id, reset_button_id}

(* C24: during and after a search the caller's field mapping has the keys   *)
(* it was passed with, none of them a protocol parameter, and the values it *)
(* was passed with at every key but "<form>:organization"; that entry is    *)
(* as passed until the page is accepted and from then on the page's         *)
(* resolution of the passed text. Without that key, and when the call       *)
(* raises the missing-view-state error, the mapping is as passed.           *)
C24_OnlyOrganizationRewritten ==
    op = "ajax_search" =>
        LET org_field == FieldName(form_id, "organization")
        IN  /\ DOMAIN form_fields = DOMAIN fields0
            /\ DOMAIN form_fields \cap ProtocolKeys = {}
            /\ \A k \in DOMAIN fields0 \ {org_field} : form_fields[k] = fields0[k]
            /\ org_field \notin DOMAIN fields0 => form_fields = fields0
            /\ Len(sent) = 1 => form_fields = fields0
            /\ (pc = "raised" /\ exc.t = "RuntimeError") => form_fields = fields0
            /\ (Len(sent) > 1 /\ org_field \in DOMAIN fields0) =>
                  form_fields[org_field]
                      = _resolve_org_code(page_html, form_id, fields0[org_field])

C24_Witness ==
    /\ op = "ajax_search"
    /\ pc = "done"
    /\ FieldName(form_id, "organization") \in DOMAIN fields0
    /\ form_fields[FieldName(form_id, "organization")] = <<"1030">>
    /\ fields0[FieldName(form_id, "organization")] # <<"1030">>
    /\ Cardinality(DOMAIN fields0) = 2

-----------------------------------------------------------------------------
(* search_bids, search_blankets and search_vendors after the extractor: the *)
(* exclude filter and the limit. A record stands under its JSON text; the   *)
(* extractor's list is a list of up to MaxBase records, once or often       *)
(* enough to pass the default limit.                                        *)

DEFAULT_LIMIT == 100

MaxBase == 2

MaxLimit == 3

\* json.dumps(r) of the records an extractor returns
RecordDumps == {<<"a">>, <<"A", "B">>, <<"B">>}

\* args.exclude: absent, empty, or a term
ExcludeTerms == {None, <<>>, <<"a">>, <<"A">>, <<"b">>}

\* args.limit: absent or None, or an integer
NoLimit == [given |-> FALSE, n |-> 0]

GivenLimit(n) == [given |-> TRUE, n |-> n]

LimitArgs == {NoLimit} \cup {GivenLimit(n) : n \in 0..MaxLimit}

\* how often the extractor's list repeats: once, or past DEFAULT_LIMIT
Repeats == {1, DEFAULT_LIMIT + 1}

Repeated(base, k) ==
    [i \in 1..(k * Len(base)) |-> base[((i - 1) % Len(base)) + 1]]

\* term not in json.dumps(r).lower(), with term = args.exclude.lower()
Survives(term, r) == ~Contains(Lower(term), Lower(r))

\* getattr(args, "limit", 100) or 100
EffectiveLimit(limit) == IF limit.given /\ limit.n # 0 THEN limit.n ELSE DEFAULT_LIMIT

\* results[:limit] for a positive limit
Truncate(results, n) ==
    SubSeq(results, 1, IF n < Len(results) THEN n ELSE Len(results))

\* variant: the list is cut to the limit before the exclude filter runs
Postprocess_cut_first(results, exclude, limit) ==
    LET cut == Truncate(results, EffectiveLimit(limit))
    IN  IF Truthy(exclude)
        THEN SelectSeq(cut, LAMBDA r : Survives(exclude, r))
        ELSE cut

\* the exclude filter, then the limit
Postprocess(results, exclude, limit) ==
    LET kept == IF Truthy(exclude)
                THEN SelectSeq(results, LAMBDA r : Survives(exclude, r))
                ELSE results
    IN  Truncate(kept, EffectiveLimit(limit))

InitLimit ==
    /\ pc = "search"
    /\ op \in {"search_bids", "search_blankets", "search_vendors"}
    /\ \E n \in 0..MaxBase : \E base \in [1..n -> RecordDumps] :
       \E k \in Repeats : \E x \in ExcludeTerms : \E l \in LimitArgs :
          rin = [results |-> Repeated(base, k), exclude |-> x, limit |-> l]
    /\ rout = None
    /\ ClientIdle

search_bids ==
    /\ pc = "search"
    /\ op = "search_bids"
    /\ rout' = Postprocess(rin.results, rin.exclude, rin.limit)
    /\ pc' = "returned"
    /\ UNCHANGED exc
    /\ ClientFrame

search_blankets ==
    /\ pc = "search"
    /\ op = "search_blankets"
    /\ rout' = Postprocess(rin.results, rin.exclude, rin.limit)
    /\ pc' = "returned"
    /\ UNCHANGED exc
    /\ ClientFrame

search_vendors ==
    /\ pc = "search"
    /\ op = "search_vendors"
    /\ rout' = Postprocess(rin.results, rin.exclude, rin.limit)
    /\ pc' = "returned"
    /\ UNCHANGED exc
    /\ ClientFrame

NextLimit == search_bids \/ search_blankets \/ search_vendors

SpecLimit == InitLimit /\ [][NextLimit]_vars

\* the record at a position of the extractor's list passes the filter
Passes(i) ==
    ~(/\ rin.exclude \notin {None, <<>>}
      /\ ContainsIgnoringCase(rin.results[i], rin.exclude))

\* the positions that pass it, in extractor order
SurvivorPositions ==
    SelectSeq([i \in 1..Len(rin.results) |-> i], LAMBDA i : Passes(i))

\* the limit that applies: the positive limit given, else 100
AppliedLimit == IF rin.limit.given /\ rin.limit.n > 0 THEN rin.limit.n ELSE 100

(* C25: a search operation returns the first records, in extractor order,   *)
(* of those that pass the exclude filter: as many as the limit allows, the  *)
(* limit being the positive limit given and 100 for a limit of 0 or none.   *)
C25_FirstSurvivorsUpToLimit ==
    pc = "returned" =>
        LET at == SurvivorPositions
            m == IF AppliedLimit < Len(at) THEN AppliedLimit ELSE Len(at)
        IN  /\ Len(rout) = m
            /\ Len(rout) <= AppliedLimit
            /\ \A k \in 1..m : rout[k] = rin.results[at[k]]

C25_Witness ==
    /\ pc = "returned"
    /\ rin.limit = GivenLimit(2)
    /\ Len(SurvivorPositions) > 2
    /\ ~Passes(1)
    /\ Len(rout) = 2
    /\ rout[2] = rin.results[SurvivorPositions[2]]

=============================================================================
